---- MODULE Spec2Model ----
(***************************************************************************)
(* State-machine model of src/index.js: a chat bot that counts messages    *)
(* and voice time per (guild, user), publishes leaderboards, and           *)
(* finalizes/resets them on a timed cycle.                                 *)
(*                                                                         *)
(* Modelling conventions                                                   *)
(*  - Times are epoch milliseconds, as Date.now() returns them.  Every     *)
(*    division by 1000 of the source is a floor division here.             *)
(*  - A handler's synchronous section is one action.  Every `await` of a   *)
(*    platform call ends an action; the continuation is the next action    *)
(*    of that handler instance, taken with the call's outcome.             *)
(*  - A synchronous section reads the clock once.                          *)
(*  - SQL NULL / JS null in an integer column is NULL (-1).                *)
(*  - The users.username column is written but never read by the code      *)
(*    modelled here and is left out of the row.                            *)
(*  - Variables prefixed h_ are history variables: they record what        *)
(*    happened (for stating properties) and are never read by the model    *)
(*    of the code.                                                         *)
(***************************************************************************)
EXTENDS Integers, Sequences, FiniteSets, TLC

\* ------------------------------------------------------------- constants
RESULTS_PER_PAGE == 10
LEADERBOARD_TOP == 10
DEBOUNCE_MS == 2000
WEEK_MS == 7 * 24 * 60 * 60 * 1000
TEST_MS == 4 * 60 * 1000
CANDIDATE_LIMIT == 100
SWEEP_MS == 15 * 1000
REFRESH_MS == 30 * 1000
FINALIZE_DELAY_MS == 500
MS_PER_SEC == 1000
WINNERS_TOP == 3

\* ---------------------------------------------------------------- bounds
\* Clock value when the behaviour starts (any realistic epoch is > 0).
StartMs == 1000000
\* The smallest clock step: half a second, so that sub-second remainders
\* exist.
StepMs == 500
\* How many times the clock advances in one behaviour.
MaxTicks == 3
\* messageCreate events per behaviour.
MaxEvents == 3
\* Voice-state changes per behaviour.
MaxVoiceEvents == 3
\* Process stops per behaviour.
MaxCrashes == 1
\* /classement commands per behaviour.
MaxCommands == 3
\* /setleaderboard commands per behaviour.
MaxSetups == 1
\* Largest id of a message of the bot (ids are 1, 2, ... in sending order).
MaxMsgId == 5
\* Button presses per behaviour.
MaxPresses == 4
\* Sweeps started per behaviour.
MaxSweepRuns == 2
\* Largest number of disconnected users of a guild that an earlier run
\* left in the users table (the candidate limit of the ranking is 100).
MaxCrowd == 100
\* Largest page a paginated view is asked for.
MaxPage == 4
\* Messages of the bot that someone deletes per behaviour.
MaxDeletes == 1

NULL == -1
NoChannel == "none"
NoGuild == "dm"

Guilds == {"g1", "g2"}
Types == {"message", "vocal"}
Humans == {1, 2}
Bots == {0}
Members == Humans \cup Bots
VoiceChannels == {"v1", "v2"}
TextChannels == {"t1", "t2"}
LbKeys == Guilds \X Types
\* process.env.OWNER_IDS
OWNER_IDS == {1}
\* Concurrent invocations of processLeaderboardsExpiry, doLeaderboardUpdate
\* and the /setleaderboard handler that the model keeps apart.
SweepSlots == {1, 2}
RenderSlots == {1, 2}
\* The order in which SQLite returns rows that the ORDER BY does not
\* separate is unspecified: ascending or descending userId are two
\* orders a build can produce.
TieOrders == {"asc", "desc"}

VARIABLES
    now,            \* Date.now()
    up,             \* the process is running and 'ready' has fired
    users,          \* table users: <<guildId, userId>> -> row
    leaderboards,   \* table leaderboards: <<guildId, type>> -> row
    activeVoice,    \* Map activeVoice: <<guildId, userId>> -> start (ms)
    pendingUpdate,  \* Map pendingUpdate: <<guildId, type>> -> due time of the armed timer
    sweepDue,       \* next firing of setInterval(processLeaderboardsExpiry, 15 s)
    refreshDue,     \* next firing of the 30 s refresh interval
    sweeps,         \* running invocations of processLeaderboardsExpiry
    renders,        \* running invocations of doLeaderboardUpdate
    setup,          \* running invocation of the /setleaderboard handler
    voice,          \* platform: voice channel each member is connected to
    msgs,           \* platform: messages of the bot that exist, id -> record
    nextMsgId,      \* platform: id the next sent message gets
    view,           \* platform: the /classement reply (embed and buttons)
    h_n,            \* history: counters of the bounded events
    h_delivered,    \* history: qualifying messageCreate events delivered per <<guild, user>>
    h_msgReset,     \* history: guilds whose message counters a finalize has reset
    h_sess,         \* history: per member, the voice session in progress
    h_last,         \* history: per member, the last voice session closed by a delivered leave
    h_fin,          \* history: what the last step of a finalize did
    h_actor,        \* history: the member behind the last message event and the last /setleaderboard
    h_upd,          \* history: per <<guild, type>>, the current burst of update triggers
    h_pub           \* history: per <<guild, type>>, the last view doLeaderboardUpdate published

dbVars == <<users, leaderboards>>
memVars == <<activeVoice, pendingUpdate, sweepDue, refreshDue>>
procVars == <<sweeps, renders, setup>>
platVars == <<voice, msgs, nextMsgId, view>>
histVars == <<h_delivered, h_msgReset, h_sess, h_last, h_fin>>
auxVars == <<h_actor, h_upd, h_pub>>
vars == <<now, up, dbVars, memVars, procVars, platVars, h_n, histVars, auxVars>>

\* ---------------------------------------------------------------- helpers
\* JS truthiness of a nullable number (null, undefined and 0 are falsy).
Truthy(x) == x # NULL /\ x # 0

Min(a, b) == IF a < b THEN a ELSE b
Max(a, b) == IF a > b THEN a ELSE b

\* Math.floor((t - start) / 1000)
ElapsedSeconds(start, t) == (t - start) \div MS_PER_SEC

\* Math.floor(date.getTime() / 1000)
EpochSeconds(t) == t \div MS_PER_SEC

\* new Date(row.voiceJoin * 1000)
RecoveredStartNoScale(voiceJoin) == voiceJoin
RecoveredStart(voiceJoin) == voiceJoin * MS_PER_SEC

\* msg.author.bot, n.member?.user.bot, state.member.user.bot
IsBotNever(m) == FALSE
IsBot(m) == m \in Bots

\* OWNER_IDS.includes(interaction.user.id)
IsOwnerAnyone(user) == TRUE
IsOwner(user) == user \in OWNER_IDS

NewUserRow == [messages |-> 0, voiceSeconds |-> 0, voiceJoin |-> NULL]

\* ------------------------------------------------- prepared statements
\* INSERT ... ON CONFLICT DO UPDATE SET username
stmtUpsertUser(tbl, g, u) ==
    IF <<g, u>> \in DOMAIN tbl THEN tbl
    ELSE [k \in DOMAIN tbl \cup {<<g, u>>} |->
            IF k = <<g, u>> THEN NewUserRow ELSE tbl[k]]

\* UPDATE users SET messages = messages + 1 WHERE guildId, userId
stmtIncMessageTwice(tbl, g, u) ==
    IF <<g, u>> \in DOMAIN tbl
    THEN [tbl EXCEPT ![<<g, u>>].messages = @ + 2]
    ELSE tbl
stmtIncMessage(tbl, g, u) ==
    IF <<g, u>> \in DOMAIN tbl
    THEN [tbl EXCEPT ![<<g, u>>].messages = @ + 1]
    ELSE tbl

\* UPDATE users SET voiceSeconds = voiceSeconds + inc, voiceJoin = NULL
stmtAddVoiceSeconds(tbl, inc, g, u) ==
    IF <<g, u>> \in DOMAIN tbl
    THEN [tbl EXCEPT ![<<g, u>>].voiceSeconds = @ + inc,
                     ![<<g, u>>].voiceJoin = NULL]
    ELSE tbl

\* UPDATE users SET voiceJoin = start
stmtSetVoiceJoin(tbl, start, g, u) ==
    IF <<g, u>> \in DOMAIN tbl
    THEN [tbl EXCEPT ![<<g, u>>].voiceJoin = start]
    ELSE tbl

\* UPDATE users SET messages = 0 WHERE guildId
stmtResetCountsBoth(tbl, g) ==
    [k \in DOMAIN tbl |->
        IF k[1] = g THEN [tbl[k] EXCEPT !.messages = 0, !.voiceSeconds = 0] ELSE tbl[k]]
stmtResetCountsMessages(tbl, g) ==
    [k \in DOMAIN tbl |->
        IF k[1] = g THEN [tbl[k] EXCEPT !.messages = 0] ELSE tbl[k]]

\* UPDATE users SET voiceSeconds = 0, voiceJoin = NULL WHERE guildId
stmtResetCountsVoice(tbl, g) ==
    [k \in DOMAIN tbl |->
        IF k[1] = g THEN [tbl[k] EXCEPT !.voiceSeconds = 0, !.voiceJoin = NULL]
        ELSE tbl[k]]

\* INSERT INTO leaderboards ... ON CONFLICT DO UPDATE SET (every column)
stmtUpsertLeaderboard(tbl, g, t, c, m, tm, s, e, w, a) ==
    [k \in DOMAIN tbl \cup {<<g, t>>} |->
        IF k = <<g, t>>
        THEN [channelId |-> c, messageId |-> m, timerMessageId |-> tm,
              startAt |-> s, endAt |-> e, winnersText |-> w, active |-> a]
        ELSE tbl[k]]

\* SELECT * FROM leaderboards WHERE active = 1 (the keys of the rows)
stmtGetAllLeaderboards(tbl) == {k \in DOMAIN tbl : tbl[k].active = 1}

\* UPDATE leaderboards SET messageId = ?
stmtUpdateLeaderboardMessage(tbl, id, g, t) ==
    IF <<g, t>> \in DOMAIN tbl THEN [tbl EXCEPT ![<<g, t>>].messageId = id] ELSE tbl

\* UPDATE leaderboards SET timerMessageId = ?
stmtUpdateTimerMessage(tbl, id, g, t) ==
    IF <<g, t>> \in DOMAIN tbl THEN [tbl EXCEPT ![<<g, t>>].timerMessageId = id] ELSE tbl

\* UPDATE leaderboards SET winnersText = ?
stmtUpdateWinnersText(tbl, w, g, t) ==
    IF <<g, t>> \in DOMAIN tbl THEN [tbl EXCEPT ![<<g, t>>].winnersText = w] ELSE tbl

\* x || null
OrNull(x) == IF Truthy(x) THEN x ELSE NULL

\* A nullable text column: winnersText.  lines are the lines joined by '\n'.
NullText == [set |-> FALSE, lines |-> <<>>]
Text(lines) == [set |-> TRUE, lines |-> lines]
\* JS truthiness of a nullable string (null and '' are falsy).
TruthyText(w) == w.set /\ w.lines # <<>>

\* ------------------------------------------------------------ formatting
\* formatDHMS: <<days, hours, minutes, seconds>>
formatDHMS(totalSec) ==
    LET s == Max(0, totalSec) IN
    <<s \div 86400, (s % 86400) \div 3600, (s % 3600) \div 60, s % 60>>

\* fmtNumber: toLocaleString('en-US'), the groups of three digits that the
\* commas separate, most significant first.
RECURSIVE fmtNumber(_)
fmtNumber(n) ==
    IF n < 1000 THEN <<n>> ELSE Append(fmtNumber(n \div 1000), n % 1000)

\* --------------------------------------------------------------- ranking
\* A stable sort by key k descending: the items are records with an
\* integer field k; items of equal k keep their order.  The items whose
\* key lies in lo .. hi, by halving the range of keys.
RECURSIVE ByKeyDesc(_, _, _)
ByKeyDesc(items, lo, hi) ==
    LET in == SelectSeq(items, LAMBDA x : lo <= x.k /\ x.k <= hi) IN
    IF in = <<>> \/ lo = hi THEN in
    ELSE LET mid == (lo + hi) \div 2 IN
         ByKeyDesc(in, mid + 1, hi) \o ByKeyDesc(in, lo, mid)
StableSortDesc(items) ==
    IF items = <<>> THEN <<>>
    ELSE LET keys == {items[i].k : i \in 1 .. Len(items)} IN
         ByKeyDesc(items, CHOOSE x \in keys : \A y \in keys : x <= y,
                          CHOOSE x \in keys : \A y \in keys : x >= y)

Reverse(seq) == [i \in 1 .. Len(seq) |-> seq[Len(seq) + 1 - i]]

\* The order the rows of a scan come in before ORDER BY separates them:
\* ascending or descending userId.
ScanOrder(S, ord) ==
    IF S = {} THEN <<>>
    ELSE LET lo == CHOOSE x \in S : \A y \in S : x <= y
             hi == CHOOSE x \in S : \A y \in S : x >= y
             asc == SelectSeq([i \in 1 .. hi - lo + 1 |-> lo + i - 1], LAMBDA u : u \in S)
         IN IF ord = "asc" THEN asc ELSE Reverse(asc)

\* ORDER BY m DESC over the elements of S: ord decides between elements
\* of equal m.
SortDesc(S, m, ord) ==
    LET scan == ScanOrder(S, ord)
        sorted == StableSortDesc([i \in 1 .. Len(scan) |-> [k |-> m[scan[i]], v |-> scan[i]]])
    IN [i \in 1 .. Len(sorted) |-> sorted[i].v]

\* Array.prototype.sort((a,b) => b.totalSeconds - a.totalSeconds): stable.
StableSortByTotal(rows) ==
    LET sorted == StableSortDesc([i \in 1 .. Len(rows) |-> [k |-> rows[i].totalSeconds, v |-> rows[i]]])
    IN [i \in 1 .. Len(sorted) |-> sorted[i].v]

GuildUsers(tbl, g) == {k[2] : k \in {x \in DOMAIN tbl : x[1] = g}}

RowOf(tbl, g, u) ==
    [userId |-> u, messages |-> tbl[<<g, u>>].messages,
     voiceSeconds |-> tbl[<<g, u>>].voiceSeconds,
     voiceJoin |-> tbl[<<g, u>>].voiceJoin, totalSeconds |-> NULL]

Prefix(seq, n) == SubSeq(seq, 1, Min(n, Len(seq)))

\* SELECT * FROM users WHERE guildId = ? ORDER BY messages DESC LIMIT ?
stmtGetTopMessages(tbl, g, limit, ord) ==
    LET S == GuildUsers(tbl, g)
        sorted == SortDesc(S, [u \in S |-> tbl[<<g, u>>].messages], ord)
    IN Prefix([i \in 1 .. Len(sorted) |-> RowOf(tbl, g, sorted[i])], limit)

\* SELECT * FROM users WHERE guildId = ? ORDER BY voiceSeconds DESC LIMIT ?
stmtGetTopVoice(tbl, g, limit, ord) ==
    LET S == GuildUsers(tbl, g)
        sorted == SortDesc(S, [u \in S |-> tbl[<<g, u>>].voiceSeconds], ord)
    IN Prefix([i \in 1 .. Len(sorted) |-> RowOf(tbl, g, sorted[i])], limit)

\* The effective total of a row of the voice ranking at time t.
TotalSeconds(r, av, g, t) ==
    r.voiceSeconds
    + (IF <<g, r.userId>> \in DOMAIN av
       THEN ElapsedSeconds(av[<<g, r.userId>>], t)
       ELSE IF Truthy(r.voiceJoin)
            THEN ElapsedSeconds(r.voiceJoin * MS_PER_SEC, t)
            ELSE 0)

\* The rows that buildLeaderboardEmbed, finalizeAndResetLeaderboard and
\* buildClassementPaginated rank (the same expression in the three).
RankedRows(tbl, av, g, type, t, ord) ==
    IF type = "message"
    THEN stmtGetTopMessages(tbl, g, CANDIDATE_LIMIT, ord)
    ELSE LET top == stmtGetTopVoice(tbl, g, CANDIDATE_LIMIT, ord) IN
         StableSortByTotal([i \in 1 .. Len(top) |->
                [top[i] EXCEPT !.totalSeconds = TotalSeconds(top[i], av, g, t)]])

\* The metric a row is displayed with.
FormattedMetric(type, d) ==
    IF type = "message" THEN fmtNumber(d.messages) ELSE formatDHMS(d.totalSeconds)

\* buildLeaderboardEmbed: the lines of the description (rank by position).
buildLeaderboardEmbed(tbl, av, g, type, t, ord) ==
    LET slice == Prefix(RankedRows(tbl, av, g, type, t, ord), LEADERBOARD_TOP) IN
    [i \in 1 .. Len(slice) |-> <<slice[i].userId, FormattedMetric(type, slice[i])>>]

\* buildConfiguredEmbed: description lines, footer (remaining days, hours,
\* minutes; <<>> for 'Cycle non demarre'), appended winners block.
buildConfiguredEmbed(lbt, tbl, av, g, type, t, ord) ==
    LET has == <<g, type>> \in DOMAIN lbt
        lb == lbt[<<g, type>>]
        remainingMs == Max(0, lb.endAt - t)
    IN [lines |-> buildLeaderboardEmbed(tbl, av, g, type, t, ord),
        footer |-> IF has /\ Truthy(lb.startAt) /\ Truthy(lb.endAt)
                   THEN <<remainingMs \div 86400000,
                          (remainingMs % 86400000) \div 3600000,
                          (remainingMs % 3600000) \div 60000>>
                   ELSE <<>>,
        winners |-> IF has /\ TruthyText(lb.winnersText) THEN lb.winnersText.lines ELSE <<>>]

\* ------------------------------------------------------ update scheduler
\* clearTimeout of the pending timer of the key, then a fresh timer.
scheduleLeaderboardUpdateKeepFirst(pend, g, t, d) ==
    IF pend[<<g, t>>] # NULL THEN pend ELSE [pend EXCEPT ![<<g, t>>] = now + d]
scheduleLeaderboardUpdate(pend, g, t, d) ==
    [pend EXCEPT ![<<g, t>>] = now + d]


\* --------------------------------------------------------------- records
EmptyMap == [k \in {} |-> 0]
NoTimers == [k \in LbKeys |-> NULL]

MapSet(m, key, v) == [k \in DOMAIN m \cup {key} |-> IF k = key THEN v ELSE m[k]]
MapDelete(m, key) == [k \in DOMAIN m \ {key} |-> m[k]]

NoCfg == [channelId |-> "", messageId |-> NULL, timerMessageId |-> NULL,
          startAt |-> NULL, endAt |-> NULL, winnersText |-> NullText, active |-> 0]
IdleSweep == [pc |-> "idle", rows |-> <<>>, i |-> 0, cfg |-> NoCfg, winners |-> NullText,
              endAt |-> NULL]
NoEmbed == [lines |-> <<>>, footer |-> <<>>, winners |-> <<>>]
IdleRender == [pc |-> "idle", g |-> "", t |-> "", cfg |-> NoCfg, embed |-> NoEmbed, at |-> NULL]
IdleSetup == [pc |-> "idle", g |-> "", t |-> "", ch |-> ""]
NoView == [shown |-> FALSE, g |-> "", type |-> "", page |-> 0, safe |-> 0, pages |-> 0,
           start |-> 0, slice |-> <<>>, rows |-> <<>>, prevDisabled |-> TRUE,
           nextDisabled |-> TRUE]

NoSess == [open |-> FALSE, t0 |-> 0, flushed |-> 0, moves |-> 0,
           fin |-> FALSE, restarts |-> 0, seen |-> FALSE]
NoLast == [valid |-> FALSE, t0 |-> 0, t1 |-> 0, flushed |-> 0, moves |-> 0,
           fin |-> FALSE, restarts |-> 0, seen |-> FALSE, recovered |-> NULL]
NoFin == [beginAt |-> NULL, beginEnd |-> NULL, done |-> {}, twice |-> FALSE,
          g |-> "", t |-> "", E |-> NULL, T |-> NULL, startAt |-> NULL, endAt |-> NULL,
          winners |-> NullText, snap |-> <<>>, pubId |-> NULL, messageId |-> NULL]
NoActor == [msg |-> NULL, cmd |-> NULL]
NoBurst == [last |-> NULL, n |-> 0, plain |-> TRUE, runs |-> 0, runAt |-> NULL]
NoPub == [at |-> NULL, footer |-> <<>>]

\* History: a trigger (a call of scheduleLeaderboardUpdate with delay d)
\* arrives for key k.  It continues the burst of the key when it comes less
\* than DEBOUNCE_MS after the previous trigger, and starts a burst otherwise:
\* last is the time of the latest trigger of the burst, n their number,
\* plain whether all of them used the default delay, runs and runAt the
\* executions of doLeaderboardUpdate since the burst began.
Triggered(hu, k, d) ==
    IF hu[k].last # NULL /\ now - hu[k].last < DEBOUNCE_MS
    THEN [hu EXCEPT ![k].last = now, ![k].n = @ + 1, ![k].plain = @ /\ d = DEBOUNCE_MS]
    ELSE [hu EXCEPT ![k] = [NoBurst EXCEPT !.last = now, !.n = 1, !.plain = (d = DEBOUNCE_MS)]]
NoCount == [ticks |-> 0, events |-> 0, vevents |-> 0, crashes |-> 0, commands |-> 0,
            sweeps |-> 0, presses |-> 0, setups |-> 0, deletes |-> 0]

\* ------------------------------------------------------------------ Init
\* The process has been launched on empty tables and has not logged in yet.
InitWith(tbl, lbt, ms) ==
    /\ now = StartMs
    /\ up = FALSE
    /\ users = tbl
    /\ leaderboards = lbt
    /\ activeVoice = EmptyMap
    /\ pendingUpdate = NoTimers
    /\ sweepDue = NULL
    /\ refreshDue = NULL
    /\ sweeps = [s \in SweepSlots |-> IdleSweep]
    /\ renders = [r \in RenderSlots |-> IdleRender]
    /\ setup = IdleSetup
    /\ voice = [k \in Guilds \X Members |-> NoChannel]
    /\ msgs = ms
    /\ nextMsgId = Cardinality(DOMAIN ms) + 1
    /\ view = NoView
    /\ h_n = NoCount
    /\ h_delivered = [k \in Guilds \X Humans |-> 0]
    /\ h_msgReset = {}
    /\ h_sess = [k \in Guilds \X Humans |-> NoSess]
    /\ h_last = [k \in Guilds \X Humans |-> NoLast]
    /\ h_fin = NoFin
    /\ h_actor = NoActor
    /\ h_upd = [k \in LbKeys |-> NoBurst]
    /\ h_pub = [k \in LbKeys |-> NoPub]

Init == InitWith(EmptyMap, EmptyMap, EmptyMap)

\* What an earlier run leaves behind when /setleaderboard was used in guild
\* g1 for both types 4 minutes before the first sweep of this run: the two
\* configs, with the timer and leaderboard messages that were sent.
ConfiguredRow(timerId, boardId) ==
    [channelId |-> "t1", messageId |-> boardId, timerMessageId |-> timerId,
     startAt |-> StartMs + SWEEP_MS - TEST_MS, endAt |-> StartMs + SWEEP_MS,
     winnersText |-> NullText, active |-> 1]
ConfiguredBoards ==
    [k \in {<<"g1", "message">>, <<"g1", "vocal">>} |->
        IF k[2] = "message" THEN ConfiguredRow(1, 2) ELSE ConfiguredRow(3, 4)]
ConfiguredMsgs ==
    [id \in 1 .. 4 |-> [ch |-> "t1", kind |-> IF id % 2 = 1 THEN "timer" ELSE "board"]]
\* The same after four users of g1 were active: user u has 8 - 2u messages
\* and 2u + 1 voice seconds, except that users 2 and 3 are level.
ActiveUsers == 4
ActiveRow(u) == [messages |-> IF u = 3 THEN 4 ELSE 8 - 2 * u,
                 voiceSeconds |-> IF u = 3 THEN 5 ELSE 2 * u + 1, voiceJoin |-> NULL]
ActiveTable == [k \in {"g1"} \X (1 .. ActiveUsers) |-> ActiveRow(k[2])]
InitActive == InitWith(ActiveTable, ConfiguredBoards, ConfiguredMsgs)
\* The same when only users 1 and 2 were active: no two counters are equal.
UntiedTable == [k \in {"g1"} \X (1 .. 2) |-> ActiveRow(k[2])]
InitUntied == InitWith(UntiedTable, ConfiguredBoards, ConfiguredMsgs)

\* What an earlier run leaves behind in a guild of n users (ids 11 ..
\* 10 + n) who wrote and talked and are all disconnected: user u has
\* 1 .. 5 voice seconds and 0 .. 6 messages.
CrowdRow(u) == [messages |-> (3 * u) % 7, voiceSeconds |-> 1 + (u % 5), voiceJoin |-> NULL]
CrowdTable(n) == [k \in {"g1"} \X (11 .. 10 + n) |-> CrowdRow(k[2])]
\* Crowds below, one under and at the candidate limit of the ranking.
CrowdSizes == {2, MaxCrowd - 1, MaxCrowd}
InitCrowd == \E n \in CrowdSizes : InitWith(CrowdTable(n), EmptyMap, EmptyMap)

\* Guilds of no user, of up to three pages of users, and of one user
\* less than a full page.
PagedSizes == {0, 1, RESULTS_PER_PAGE - 1, RESULTS_PER_PAGE, RESULTS_PER_PAGE + 1,
               2 * RESULTS_PER_PAGE, 2 * RESULTS_PER_PAGE + 5}
InitPaged == \E n \in PagedSizes : InitWith(CrowdTable(n), EmptyMap, EmptyMap)

\* The same with the message leaderboard only.
MessageBoard == [k \in {<<"g1", "message">>} |-> ConfiguredRow(1, 2)]
MessageBoardMsgs == [id \in 1 .. 2 |-> ConfiguredMsgs[id]]
InitMessageBoard == InitWith(EmptyMap, MessageBoard, MessageBoardMsgs)

\* What /setleaderboard leaves behind when it was used in g1 for the
\* message type at the moment this run starts, before anyone was active: a
\* cycle with 4 minutes to go.
RunningBoards ==
    [k \in {<<"g1", "message">>} |->
        [ConfiguredBoards[k] EXCEPT !.startAt = StartMs, !.endAt = StartMs + TEST_MS]]
InitRunning == InitWith(EmptyMap, RunningBoards, MessageBoardMsgs)

\* What an earlier run leaves behind when only the voice leaderboard of g1
\* was set up and users 1 and 2 of g1 have been active.
VocalBoard == [k \in {<<"g1", "vocal">>} |-> ConfiguredBoards[k]]
InitVocalBoard == InitWith(UntiedTable, VocalBoard, ConfiguredMsgs)

\* ----------------------------------------------------------------- clock
Tick(d) ==
    /\ h_n.ticks < MaxTicks
    /\ now' = now + d
    /\ h_n' = [h_n EXCEPT !.ticks = @ + 1]
    /\ UNCHANGED <<up, dbVars, memVars, procVars, platVars, histVars, auxVars>>

\* ------------------------------------------------------- client.on('messageCreate')
\* g is msg.guild (NoGuild for a direct message), a is msg.author.
messageCreate(g, a) ==
    /\ up
    /\ h_n.events < MaxEvents
    /\ h_n' = [h_n EXCEPT !.events = @ + 1]
    /\ h_actor' = [h_actor EXCEPT !.msg = a]
    /\ IF g = NoGuild \/ IsBot(a)
       THEN UNCHANGED <<users, pendingUpdate, h_delivered, h_upd>>
       ELSE /\ users' = stmtIncMessage(stmtUpsertUser(users, g, a), g, a)
            /\ pendingUpdate' = scheduleLeaderboardUpdate(pendingUpdate, g, "message", DEBOUNCE_MS)
            /\ h_delivered' = [h_delivered EXCEPT ![<<g, a>>] = @ + 1]
            /\ h_upd' = Triggered(h_upd, <<g, "message">>, DEBOUNCE_MS)
    /\ UNCHANGED <<now, up, leaderboards, activeVoice, sweepDue, refreshDue, procVars,
                   platVars, h_msgReset, h_sess, h_last, h_fin, h_pub>>

\* ---------------------------------------------------- client.on('voiceStateUpdate')
\* `activeVoice.get(key) || (o.joinedTimestamp ? ... : null)`: a VoiceState
\* has no joinedTimestamp property, so the fallback is null.
SessionStart(av, key) == IF key \in DOMAIN av THEN av[key] ELSE NULL

\* The member m of guild g goes from voice[<<g, m>>] to channel c (NoChannel:
\* disconnects).  The platform state changes; the handler runs if the
\* process is up.
voiceStateUpdate(g, m, c) ==
    LET key == <<g, m>>
        o == voice[key]
        start == SessionStart(activeVoice, key)
        inc == IF start # NULL THEN ElapsedSeconds(start, now) ELSE 0
        flushed == IF start # NULL THEN stmtAddVoiceSeconds(users, inc, g, m) ELSE users
    IN
    /\ c # o
    /\ h_n.vevents < MaxVoiceEvents
    /\ h_n' = [h_n EXCEPT !.vevents = @ + 1]
    /\ voice' = [voice EXCEPT ![key] = c]
    /\ IF ~up \/ IsBot(m)
       THEN /\ UNCHANGED <<users, activeVoice, pendingUpdate, h_last, h_upd>>
            /\ h_sess' = IF m \in Bots THEN h_sess
                         ELSE IF c = NoChannel THEN [h_sess EXCEPT ![key] = NoSess]
                         ELSE IF o = NoChannel
                              THEN [h_sess EXCEPT ![key] = [NoSess EXCEPT !.open = TRUE, !.t0 = now]]
                              ELSE h_sess
       ELSE IF o = NoChannel
       THEN \* join
            /\ activeVoice' = MapSet(activeVoice, key, now)
            /\ users' = stmtSetVoiceJoin(stmtUpsertUser(users, g, m), EpochSeconds(now), g, m)
            /\ pendingUpdate' = scheduleLeaderboardUpdate(pendingUpdate, g, "vocal", DEBOUNCE_MS)
            /\ h_upd' = Triggered(h_upd, <<g, "vocal">>, DEBOUNCE_MS)
            /\ h_sess' = [h_sess EXCEPT ![key] =
                            [NoSess EXCEPT !.open = TRUE, !.t0 = now, !.seen = TRUE]]
            /\ UNCHANGED h_last
       ELSE IF c # NoChannel
       THEN \* move
            /\ activeVoice' = MapSet(activeVoice, key, now)
            /\ users' = stmtSetVoiceJoin(flushed, EpochSeconds(now), g, m)
            /\ pendingUpdate' = scheduleLeaderboardUpdate(pendingUpdate, g, "vocal", DEBOUNCE_MS)
            /\ h_upd' = Triggered(h_upd, <<g, "vocal">>, DEBOUNCE_MS)
            /\ h_sess' = [h_sess EXCEPT ![key].flushed = @ + inc, ![key].moves = @ + 1]
            /\ UNCHANGED h_last
       ELSE \* leave
            /\ activeVoice' = MapDelete(activeVoice, key)
            /\ users' = stmtSetVoiceJoin(flushed, NULL, g, m)
            /\ pendingUpdate' = scheduleLeaderboardUpdate(pendingUpdate, g, "vocal", DEBOUNCE_MS)
            /\ h_upd' = Triggered(h_upd, <<g, "vocal">>, DEBOUNCE_MS)
            /\ h_last' = [h_last EXCEPT ![key] =
                            [valid |-> TRUE, t0 |-> h_sess[key].t0, t1 |-> now,
                             flushed |-> h_sess[key].flushed + inc,
                             moves |-> h_sess[key].moves, fin |-> h_sess[key].fin,
                             restarts |-> h_sess[key].restarts, seen |-> h_sess[key].seen,
                             recovered |-> start]]
            /\ h_sess' = [h_sess EXCEPT ![key] = NoSess]
    /\ UNCHANGED <<now, up, leaderboards, sweepDue, refreshDue, procVars, msgs, nextMsgId,
                   view, h_delivered, h_msgReset, h_fin, h_actor, h_pub>>

\* ------------------------------------------------------ client.once('ready')
\* The scan of guild.voiceStates.cache: one member.
ReadyMember(st, key) ==
    LET row == IF key \in DOMAIN st.users THEN st.users[key] ELSE NewUserRow IN
    IF key \in DOMAIN st.users /\ Truthy(row.voiceJoin)
    THEN [st EXCEPT !.activeVoice = MapSet(@, key, RecoveredStart(row.voiceJoin))]
    ELSE [users |-> stmtSetVoiceJoin(stmtUpsertUser(st.users, key[1], key[2]),
                                     EpochSeconds(now), key[1], key[2]),
          activeVoice |-> MapSet(st.activeVoice, key, now)]

RECURSIVE ReadyScan(_, _)
ReadyScan(st, keys) ==
    IF keys = {} THEN st
    ELSE LET key == CHOOSE k \in keys : TRUE IN
         ReadyScan(ReadyMember(st, key), keys \ {key})

\* The process logs in (again): the maps are empty, the tables are what the
\* last run left; the two intervals are armed.
ready ==
    LET connected == {k \in DOMAIN voice : voice[k] # NoChannel /\ ~IsBot(k[2])}
        st == ReadyScan([users |-> users, activeVoice |-> EmptyMap], connected)
    IN
    /\ ~up
    /\ up' = TRUE
    /\ users' = st.users
    /\ activeVoice' = st.activeVoice
    /\ sweepDue' = now + SWEEP_MS
    /\ refreshDue' = now + REFRESH_MS
    /\ UNCHANGED <<now, leaderboards, pendingUpdate, procVars, platVars, h_n, histVars, auxVars>>

\* The process stops: everything in memory is lost (maps, timers, running
\* handlers), the tables and the platform stay.
Crash ==
    /\ up
    /\ h_n.crashes < MaxCrashes
    /\ h_n' = [h_n EXCEPT !.crashes = @ + 1]
    /\ up' = FALSE
    /\ activeVoice' = EmptyMap
    /\ pendingUpdate' = NoTimers
    /\ sweepDue' = NULL
    /\ refreshDue' = NULL
    /\ sweeps' = [s \in SweepSlots |-> IdleSweep]
    /\ renders' = [r \in RenderSlots |-> IdleRender]
    /\ setup' = IdleSetup
    /\ h_sess' = [k \in DOMAIN h_sess |->
                    IF h_sess[k].open THEN [h_sess[k] EXCEPT !.restarts = @ + 1]
                    ELSE h_sess[k]]
    /\ h_upd' = [k \in LbKeys |-> NoBurst]
    /\ UNCHANGED <<now, dbVars, platVars, h_delivered, h_msgReset, h_last, h_fin, h_actor, h_pub>>

\* ------------------------------------------------- processLeaderboardsExpiry
\* A row of the sweep's snapshot `rows`: the columns the loop reads.
SweepRow(lbt, k) == [g |-> k[1], t |-> k[2], endAt |-> lbt[k].endAt]

\* The orders in which the rows of a SELECT without ORDER BY can come.
Orders(S) == {f \in [1 .. Cardinality(S) -> S] : \A i, j \in 1 .. Cardinality(S) : f[i] = f[j] => i = j}

\* `lb.endAt && Date.now() >= lb.endAt`, on the snapshot row.
ExpiredStrictly(row) == Truthy(row.endAt) /\ now > row.endAt
Expired(row) == Truthy(row.endAt) /\ now >= row.endAt

\* The for-loop from row i on, up to the first await: the channel fetch of
\* the first finalizeAndResetLeaderboard whose stmtGetLeaderboard finds a row.
RECURSIVE SweepFrom(_, _, _)
SweepFrom(lbt, rows, i) ==
    IF i > Len(rows) THEN IdleSweep
    ELSE IF Expired(rows[i]) /\ <<rows[i].g, rows[i].t>> \in DOMAIN lbt
         THEN [pc |-> "fetchCh", rows |-> rows, i |-> i,
               cfg |-> lbt[<<rows[i].g, rows[i].t>>], winners |-> NullText, endAt |-> NULL]
         ELSE SweepFrom(lbt, rows, i + 1)

\* History: a finalize began (its config was read) in this step.
Began(hf, proc) ==
    IF proc.pc = "fetchCh"
    THEN [hf EXCEPT !.beginAt = now, !.beginEnd = proc.cfg.endAt]
    ELSE hf

\* setInterval fires: stmtGetAllLeaderboards.all(), then the loop.
processLeaderboardsExpiry(s, rows) ==
    /\ up
    /\ sweepDue # NULL /\ now >= sweepDue
    /\ sweeps[s].pc = "idle"
    /\ h_n.sweeps < MaxSweepRuns
    /\ h_n' = [h_n EXCEPT !.sweeps = @ + 1]
    /\ sweepDue' = now + SWEEP_MS
    /\ sweeps' = [sweeps EXCEPT ![s] = SweepFrom(leaderboards, rows, 1)]
    /\ h_fin' = Began(h_fin, sweeps'[s])
    /\ UNCHANGED <<now, up, dbVars, activeVoice, pendingUpdate, refreshDue, renders, setup,
                   platVars, h_delivered, h_msgReset, h_sess, h_last, auxVars>>

\* ----------------------------------------------- finalizeAndResetLeaderboard
FinG(s) == sweeps[s].rows[sweeps[s].i].g
FinT(s) == sweeps[s].rows[sweeps[s].i].t

\* top3.map(...).join('\n'): <<userId, formatted metric>> per line, the
\* medal being the position of the line.
WinnersText(rows, type) ==
    LET top3 == Prefix(rows, WINNERS_TOP) IN
    Text([i \in 1 .. Len(top3) |-> <<top3[i].userId, FormattedMetric(type, top3[i])>>])

\* finalize returns to the loop, which runs on to the next await.
FinReturn(s, lbt) ==
    /\ sweeps' = [sweeps EXCEPT ![s] = SweepFrom(lbt, sweeps[s].rows, sweeps[s].i + 1)]
    /\ h_fin' = Began(h_fin, sweeps'[s])

\* History: the counter of every row that a finalize ranked, <<userId,
\* messages or totalSeconds>>.
Counted(rows, type) ==
    [i \in 1 .. Len(rows) |->
        <<rows[i].userId, IF type = "message" THEN rows[i].messages ELSE rows[i].totalSeconds>>]

\* channels.fetch(cfg.channelId) settled: ok iff it gave a text channel.
\* Ranking, winners text, stmtUpdateWinnersText, buildConfiguredEmbed.
FinFetchedChannel(s, ok, ord) ==
    LET g == FinG(s)
        t == FinT(s)
        rows == RankedRows(users, activeVoice, g, t, now, ord)
        w == WinnersText(rows, t)
    IN
    /\ up
    /\ sweeps[s].pc = "fetchCh"
    /\ IF ok
       THEN /\ leaderboards' = stmtUpdateWinnersText(leaderboards, w, g, t)
            /\ sweeps' = [sweeps EXCEPT ![s].winners = w,
                            ![s].pc = IF Truthy(sweeps[s].cfg.messageId) THEN "fetchMsg" ELSE "send"]
            /\ h_fin' = [h_fin EXCEPT !.snap = Counted(rows, t)]
       ELSE /\ FinReturn(s, leaderboards)
            /\ UNCHANGED leaderboards
    /\ UNCHANGED <<now, up, users, memVars, renders, setup, platVars, h_n,
                   h_delivered, h_msgReset, h_sess, h_last, auxVars>>

\* Whether messages.fetch(id) of channel ch can give the message.
MessageExists(id, ch) == id \in DOMAIN msgs /\ msgs[id].ch = ch

\* ch.messages.fetch(cfg.messageId).catch(()=>null) settled.
FinFetchedMessage(s, found) ==
    /\ up
    /\ sweeps[s].pc = "fetchMsg"
    /\ found => MessageExists(sweeps[s].cfg.messageId, sweeps[s].cfg.channelId)
    /\ sweeps' = [sweeps EXCEPT ![s].pc = IF found THEN "edit" ELSE "send"]
    /\ UNCHANGED <<now, up, dbVars, memVars, renders, setup, platVars, h_n, histVars, auxVars>>

\* activeVoice.forEach: every open session of the guild restarts now.
ReanchorVoiceKeepStart(av, g) == av
ReanchorVoice(av, g) == [k \in DOMAIN av |-> IF k[1] = g THEN now ELSE av[k]]
ReanchorJoins(tbl, av, g) ==
    [k \in DOMAIN tbl |->
        IF k[1] = g /\ k \in DOMAIN av
        THEN [tbl[k] EXCEPT !.voiceJoin = EpochSeconds(now)]
        ELSE tbl[k]]

\* The cycle that finalize starts: <<startAt, endAt>>.
NewCycleFromOldEnd(oldEnd) == <<oldEnd, oldEnd + WEEK_MS>>
NewCycle(oldEnd) == <<now, now + WEEK_MS>>

\* The synchronous section after the publish: reset of the counters,
\* re-anchoring of the open sessions, upsert of the new cycle; then the
\* await of the timer message fetch, or the return.  lbt is the table as
\* the publish left it, pub the id of the message the publish edited or sent.
FinReset(s, lbt, pub) ==
    LET g == FinG(s)
        t == FinT(s)
        cfg == sweeps[s].cfg
        w == sweeps[s].winners
        cyc == NewCycle(sweeps[s].rows[sweeps[s].i].endAt)
        reset == IF t = "message" THEN stmtResetCountsMessages(users, g)
                 ELSE stmtResetCountsVoice(users, g)
        lbt2 == stmtUpsertLeaderboard(lbt, g, t, cfg.channelId, OrNull(cfg.messageId),
                                      OrNull(cfg.timerMessageId), cyc[1], cyc[2], w, 1)
        cycle == <<g, t, cfg.endAt>>
        hf == [h_fin EXCEPT !.done = @ \cup {cycle}, !.twice = @ \/ cycle \in h_fin.done,
                           !.g = g, !.t = t, !.E = sweeps[s].rows[sweeps[s].i].endAt, !.T = now,
                           !.startAt = lbt2[<<g, t>>].startAt, !.endAt = lbt2[<<g, t>>].endAt,
                           !.winners = lbt2[<<g, t>>].winnersText,
                           !.pubId = pub, !.messageId = lbt2[<<g, t>>].messageId]
    IN
    /\ users' = IF t = "vocal" THEN ReanchorJoins(reset, activeVoice, g) ELSE reset
    /\ activeVoice' = IF t = "vocal" THEN ReanchorVoice(activeVoice, g) ELSE activeVoice
    /\ leaderboards' = lbt2
    /\ h_msgReset' = IF t = "message" THEN h_msgReset \cup {g} ELSE h_msgReset
    /\ h_sess' = [k \in DOMAIN h_sess |->
                    IF t = "vocal" /\ k[1] = g /\ h_sess[k].open
                    THEN [h_sess[k] EXCEPT !.fin = TRUE] ELSE h_sess[k]]
    /\ IF Truthy(cfg.timerMessageId)
       THEN /\ sweeps' = [sweeps EXCEPT ![s].pc = "fetchTimer", ![s].endAt = cyc[2]]
            /\ UNCHANGED <<pendingUpdate, h_upd>>
            /\ h_fin' = hf
       ELSE /\ pendingUpdate' = scheduleLeaderboardUpdate(pendingUpdate, g, t, FINALIZE_DELAY_MS)
            /\ h_upd' = Triggered(h_upd, <<g, t>>, FINALIZE_DELAY_MS)
            /\ sweeps' = [sweeps EXCEPT ![s] = SweepFrom(lbt2, sweeps[s].rows, sweeps[s].i + 1)]
            /\ h_fin' = Began(hf, sweeps'[s])

\* msg.edit({embeds}).catch(()=>{}) settled (either way), then the reset.
FinEdited(s) ==
    /\ up
    /\ sweeps[s].pc = "edit"
    /\ FinReset(s, leaderboards, sweeps[s].cfg.messageId)
    /\ UNCHANGED <<now, up, sweepDue, refreshDue, renders, setup, platVars, h_n,
                   h_delivered, h_last, h_actor, h_pub>>

\* ch.send({embeds}) settled.  ok: the new id is stored, then the reset.
\* Not ok: the exception leaves finalize and the sweep.
FinSent(s, ok) ==
    /\ up
    /\ sweeps[s].pc = "send"
    /\ IF ok
       THEN /\ nextMsgId <= MaxMsgId
            /\ msgs' = MapSet(msgs, nextMsgId, [ch |-> sweeps[s].cfg.channelId, kind |-> "board"])
            /\ nextMsgId' = nextMsgId + 1
            /\ FinReset(s, stmtUpdateLeaderboardMessage(leaderboards, nextMsgId, FinG(s), FinT(s)),
                        nextMsgId)
       ELSE /\ sweeps' = [sweeps EXCEPT ![s] = IdleSweep]
            /\ UNCHANGED <<dbVars, activeVoice, pendingUpdate, msgs, nextMsgId, histVars, h_upd>>
    /\ UNCHANGED <<now, up, sweepDue, refreshDue, renders, setup, voice, view, h_n,
                   h_delivered, h_last, h_actor, h_pub>>

\* ch.messages.fetch(cfg.timerMessageId).catch(()=>null) settled.
FinFetchedTimer(s, found) ==
    /\ up
    /\ sweeps[s].pc = "fetchTimer"
    /\ found => MessageExists(sweeps[s].cfg.timerMessageId, sweeps[s].cfg.channelId)
    /\ IF found
       THEN /\ sweeps' = [sweeps EXCEPT ![s].pc = "editTimer"]
            /\ UNCHANGED <<pendingUpdate, h_fin, h_upd>>
       ELSE /\ pendingUpdate' = scheduleLeaderboardUpdate(pendingUpdate, FinG(s), FinT(s),
                                                          FINALIZE_DELAY_MS)
            /\ h_upd' = Triggered(h_upd, <<FinG(s), FinT(s)>>, FINALIZE_DELAY_MS)
            /\ FinReturn(s, leaderboards)
    /\ UNCHANGED <<now, up, dbVars, activeVoice, sweepDue, refreshDue, renders, setup,
                   platVars, h_n, h_delivered, h_msgReset, h_sess, h_last, h_actor, h_pub>>

\* timerMsg.edit(...).catch(...) settled (either way).
FinEditedTimer(s) ==
    /\ up
    /\ sweeps[s].pc = "editTimer"
    /\ pendingUpdate' = scheduleLeaderboardUpdate(pendingUpdate, FinG(s), FinT(s),
                                                  FINALIZE_DELAY_MS)
    /\ h_upd' = Triggered(h_upd, <<FinG(s), FinT(s)>>, FINALIZE_DELAY_MS)
    /\ FinReturn(s, leaderboards)
    /\ UNCHANGED <<now, up, dbVars, activeVoice, sweepDue, refreshDue, renders, setup,
                   platVars, h_n, h_delivered, h_msgReset, h_sess, h_last, h_actor, h_pub>>

\* ------------------------------------------------------- /setleaderboard
\* The command arrives: permission check, upsert of the config with a
\* 4-minute cycle, then the await of the timer message send.
setleaderboard(user, g, t, ch) ==
    /\ up
    /\ setup.pc = "idle"
    /\ h_n.setups < MaxSetups
    /\ h_n' = [h_n EXCEPT !.setups = @ + 1]
    /\ h_actor' = [h_actor EXCEPT !.cmd = user]
    /\ IF ~IsOwner(user)
       THEN UNCHANGED <<leaderboards, setup>>
       ELSE /\ leaderboards' = stmtUpsertLeaderboard(leaderboards, g, t, ch, NULL, NULL,
                                                     now, now + TEST_MS, NullText, 1)
            /\ setup' = [pc |-> "sendTimer", g |-> g, t |-> t, ch |-> ch]
    /\ UNCHANGED <<now, up, users, memVars, sweeps, renders, platVars, histVars, h_upd, h_pub>>

\* ch.send(timer text) settled.  ok: stmtUpdateTimerMessage, the embed is
\* built, then the await of its send.  Not ok: the handler's catch replies.
SetSentTimer(ok) ==
    /\ up
    /\ setup.pc = "sendTimer"
    /\ IF ok
       THEN /\ nextMsgId <= MaxMsgId
            /\ msgs' = MapSet(msgs, nextMsgId, [ch |-> setup.ch, kind |-> "timer"])
            /\ nextMsgId' = nextMsgId + 1
            /\ leaderboards' = stmtUpdateTimerMessage(leaderboards, nextMsgId, setup.g, setup.t)
            /\ setup' = [setup EXCEPT !.pc = "sendEmbed"]
       ELSE /\ setup' = IdleSetup
            /\ UNCHANGED <<leaderboards, msgs, nextMsgId>>
    /\ UNCHANGED <<now, up, users, memVars, sweeps, renders, voice, view, h_n, histVars, auxVars>>

\* ch.send({embeds}) settled.  ok: stmtUpdateLeaderboardMessage, reply.
SetSentEmbed(ok) ==
    /\ up
    /\ setup.pc = "sendEmbed"
    /\ setup' = IdleSetup
    /\ IF ok
       THEN /\ nextMsgId <= MaxMsgId
            /\ msgs' = MapSet(msgs, nextMsgId, [ch |-> setup.ch, kind |-> "board"])
            /\ nextMsgId' = nextMsgId + 1
            /\ leaderboards' = stmtUpdateLeaderboardMessage(leaderboards, nextMsgId,
                                                            setup.g, setup.t)
       ELSE UNCHANGED <<leaderboards, msgs, nextMsgId>>
    /\ UNCHANGED <<now, up, users, memVars, sweeps, renders, voice, view, h_n, histVars, auxVars>>

\* ------------------------------------------------- scheduler: the timers
\* The lowest idle slot (the slots are interchangeable).
FirstIdle(procs, r) == procs[r].pc = "idle" /\ \A q \in DOMAIN procs : q < r => procs[q].pc # "idle"

\* The 30 s interval fires: scheduleLeaderboardUpdate(guildId, type, 0) for
\* every active row.
refreshIntervalDebounced ==
    /\ up
    /\ refreshDue # NULL /\ now >= refreshDue
    /\ refreshDue' = now + REFRESH_MS
    /\ pendingUpdate' = [k \in LbKeys |->
                            IF k \in stmtGetAllLeaderboards(leaderboards) THEN now + DEBOUNCE_MS
                            ELSE pendingUpdate[k]]
    /\ h_upd' = [k \in LbKeys |->
                    IF k \in stmtGetAllLeaderboards(leaderboards) THEN Triggered(h_upd, k, 0)[k]
                    ELSE h_upd[k]]
    /\ UNCHANGED <<now, up, dbVars, activeVoice, sweepDue, procVars, platVars, h_n, histVars,
                   h_actor, h_pub>>
refreshInterval ==
    /\ up
    /\ refreshDue # NULL /\ now >= refreshDue
    /\ refreshDue' = now + REFRESH_MS
    /\ pendingUpdate' = [k \in LbKeys |->
                            IF k \in stmtGetAllLeaderboards(leaderboards) THEN now
                            ELSE pendingUpdate[k]]
    /\ h_upd' = [k \in LbKeys |->
                    IF k \in stmtGetAllLeaderboards(leaderboards) THEN Triggered(h_upd, k, 0)[k]
                    ELSE h_upd[k]]
    /\ UNCHANGED <<now, up, dbVars, activeVoice, sweepDue, procVars, platVars, h_n, histVars,
                   h_actor, h_pub>>

\* The timer of key k fires: doLeaderboardUpdate up to its first await.
doLeaderboardUpdate(k, r) ==
    /\ up
    /\ pendingUpdate[k] # NULL /\ now >= pendingUpdate[k]
    /\ FirstIdle(renders, r)
    /\ pendingUpdate' = [pendingUpdate EXCEPT ![k] = NULL]
    /\ renders' = IF k \in DOMAIN leaderboards /\ Truthy(leaderboards[k].active)
                  THEN [renders EXCEPT ![r] = [IdleRender EXCEPT !.pc = "fetchCh", !.g = k[1],
                                                                !.t = k[2], !.cfg = leaderboards[k]]]
                  ELSE renders
    /\ h_upd' = [h_upd EXCEPT ![k].runs = @ + 1, ![k].runAt = now]
    /\ UNCHANGED <<now, up, dbVars, activeVoice, sweepDue, refreshDue, sweeps, setup,
                   platVars, h_n, histVars, h_actor, h_pub>>

\* channels.fetch settled (ok iff it gave a text channel);
\* buildConfiguredEmbed; then the message fetch or the send.
UpdFetchedChannel(r, ok, ord) ==
    /\ up
    /\ renders[r].pc = "fetchCh"
    /\ renders' = [renders EXCEPT ![r] =
                     IF ~ok THEN IdleRender
                     ELSE [@ EXCEPT !.pc = IF Truthy(renders[r].cfg.messageId)
                                           THEN "fetchMsg" ELSE "send",
                                    !.embed = buildConfiguredEmbed(leaderboards, users, activeVoice,
                                                                   renders[r].g, renders[r].t, now, ord),
                                    !.at = now]]
    /\ UNCHANGED <<now, up, dbVars, memVars, sweeps, setup, platVars, h_n, histVars, auxVars>>

\* messages.fetch(cfg.messageId).catch(()=>null) settled: the message is
\* edited, or the code falls through to ch.send.
UpdFetchedMessageNoResend(r, found) ==
    /\ up
    /\ renders[r].pc = "fetchMsg"
    /\ found => MessageExists(renders[r].cfg.messageId, renders[r].cfg.channelId)
    /\ renders' = [renders EXCEPT ![r] = IF found THEN [@ EXCEPT !.pc = "edit"] ELSE IdleRender]
    /\ UNCHANGED <<now, up, dbVars, memVars, sweeps, setup, platVars, h_n, histVars, auxVars>>
UpdFetchedMessage(r, found) ==
    /\ up
    /\ renders[r].pc = "fetchMsg"
    /\ found => MessageExists(renders[r].cfg.messageId, renders[r].cfg.channelId)
    /\ renders' = [renders EXCEPT ![r].pc = IF found THEN "edit" ELSE "send"]
    /\ UNCHANGED <<now, up, dbVars, memVars, sweeps, setup, platVars, h_n, histVars, auxVars>>

\* History: render r published its embed.
Published(hp, r) ==
    [hp EXCEPT ![<<renders[r].g, renders[r].t>>] =
        [at |-> renders[r].at, footer |-> renders[r].embed.footer]]

\* `return msg.edit(...)` settled: ok iff the message now shows the embed.
\* Not ok: the rejection leaves doLeaderboardUpdate (a returned promise is
\* not awaited inside the try).
UpdEdited(r, ok) ==
    /\ up
    /\ renders[r].pc = "edit"
    /\ ok => MessageExists(renders[r].cfg.messageId, renders[r].cfg.channelId)
    /\ renders' = [renders EXCEPT ![r] = IdleRender]
    /\ h_pub' = IF ok THEN Published(h_pub, r) ELSE h_pub
    /\ UNCHANGED <<now, up, dbVars, memVars, sweeps, setup, platVars, h_n, histVars,
                   h_actor, h_upd>>

\* ch.send settled.  ok: stmtUpdateLeaderboardMessage(sent.id).
UpdSent(r, ok) ==
    /\ up
    /\ renders[r].pc = "send"
    /\ renders' = [renders EXCEPT ![r] = IdleRender]
    /\ IF ok
       THEN /\ nextMsgId <= MaxMsgId
            /\ msgs' = MapSet(msgs, nextMsgId, [ch |-> renders[r].cfg.channelId, kind |-> "board"])
            /\ nextMsgId' = nextMsgId + 1
            /\ leaderboards' = stmtUpdateLeaderboardMessage(leaderboards, nextMsgId,
                                                            renders[r].g, renders[r].t)
            /\ h_pub' = Published(h_pub, r)
       ELSE UNCHANGED <<leaderboards, msgs, nextMsgId, h_pub>>
    /\ UNCHANGED <<now, up, users, memVars, sweeps, setup, voice, view, h_n, histVars,
                   h_actor, h_upd>>

\* Platform: someone deletes the message id of the bot.
DeleteMessage(id) ==
    /\ id \in DOMAIN msgs
    /\ h_n.deletes < MaxDeletes
    /\ h_n' = [h_n EXCEPT !.deletes = @ + 1]
    /\ msgs' = MapDelete(msgs, id)
    /\ UNCHANGED <<now, up, dbVars, memVars, procVars, voice, nextMsgId, view, histVars, auxVars>>

\* ------------------------------------------------- /classement pagination
\* Math.ceil(n / d) for n >= 0
CeilDiv(n, d) == (n + d - 1) \div d

PageStartOffByOne(safe) == safe * RESULTS_PER_PAGE
PageStart(safe) == (safe - 1) * RESULTS_PER_PAGE

\* Math.min(Math.max(1, page), pages)
SafePage(page, pages) == Min(Max(1, page), pages)

\* Array.prototype.slice(start, end): the elements of index start .. end-1
\* (0-based) that exist.
Slice(seq, start, end) == SubSeq(seq, start + 1, Min(end, Len(seq)))

buildClassementPaginated(rows, page) ==
    LET pages == Max(1, CeilDiv(Len(rows), RESULTS_PER_PAGE))
        safe == SafePage(page, pages)
        start == PageStart(safe)
    IN [pages |-> pages, safe |-> safe, start |-> start,
        slice |-> Slice(rows, start, start + RESULTS_PER_PAGE)]

\* The two buttons: the page their customId carries, and whether each is
\* disabled.
makePageButtonsNextOnLast(page, max) ==
    [page |-> page, prevDisabled |-> page <= 1, nextDisabled |-> page > max]
makePageButtons(page, max) ==
    [page |-> page, prevDisabled |-> page <= 1, nextDisabled |-> page >= max]

\* The reply that shows page `page` of the ranking `rows`.
PageView(g, type, rows, page) ==
    LET b == buildClassementPaginated(rows, page)
        row == makePageButtons(page, b.pages)
    IN [shown |-> TRUE, g |-> g, type |-> type, page |-> row.page, safe |-> b.safe,
        pages |-> b.pages, start |-> b.start, slice |-> b.slice, rows |-> rows,
        prevDisabled |-> row.prevDisabled, nextDisabled |-> row.nextDisabled]

\* /classement type: page 1.
classement(g, type, ord) ==
    /\ up
    /\ h_n.commands < MaxCommands
    /\ h_n' = [h_n EXCEPT !.commands = @ + 1]
    /\ view' = PageView(g, type, RankedRows(users, activeVoice, g, type, now, ord), 1)
    /\ UNCHANGED <<now, up, dbVars, memVars, procVars, voice, msgs, nextMsgId, histVars, auxVars>>

\* buildClassementPaginated(guildId, type, page) and makePageButtons(type,
\* page, pages) as the two handlers call them, for any integer page.
paginate(g, type, page, ord) ==
    /\ up
    /\ view' = PageView(g, type, RankedRows(users, activeVoice, g, type, now, ord), page)
    /\ UNCHANGED <<now, up, dbVars, memVars, procVars, voice, msgs, nextMsgId, h_n, histVars, auxVars>>

\* The page a button press asks for, from the page in its customId.
RequestedPage(dir, page) == IF dir = "prev" THEN Max(1, page - 1) ELSE page + 1

\* A press of the prev or next button of the reply (a disabled button
\* cannot be pressed).
button(dir, ord) ==
    /\ up
    /\ view.shown
    /\ IF dir = "prev" THEN ~view.prevDisabled ELSE ~view.nextDisabled
    /\ h_n.presses < MaxPresses
    /\ h_n' = [h_n EXCEPT !.presses = @ + 1]
    /\ view' = PageView(view.g, view.type,
                        RankedRows(users, activeVoice, view.g, view.type, now, ord),
                        RequestedPage(dir, view.page))
    /\ UNCHANGED <<now, up, dbVars, memVars, procVars, voice, msgs, nextMsgId, histVars, auxVars>>

\* ------------------------------------------------------- specifications
\* Voice tracking: one human and one bot of guild g1, and restarts, on
\* empty tables.
NextVoice ==
    \/ Tick(StepMs)
    \/ \E m \in {0, 1}, c \in VoiceChannels \cup {NoChannel} : voiceStateUpdate("g1", m, c)
    \/ ready
    \/ Crash

SpecVoice == Init /\ [][NextVoice]_vars

\* Message counting: messages of two guilds and of direct messages, by
\* humans and a bot, with the message leaderboard of g1 expiring once.
NextMsg ==
    \/ Tick(SWEEP_MS)
    \/ \E g \in Guilds \cup {NoGuild}, a \in {0, 1} : messageCreate(g, a)
    \/ ready
    \/ \E rows \in Orders(stmtGetAllLeaderboards(leaderboards)) :
            processLeaderboardsExpiry(1, [i \in DOMAIN rows |-> SweepRow(leaderboards, rows[i])])
    \/ \E ok \in BOOLEAN, ord \in TieOrders : FinFetchedChannel(1, ok, ord)
    \/ \E found \in BOOLEAN : FinFetchedMessage(1, found)
    \/ FinEdited(1)
    \/ \E ok \in BOOLEAN : FinSent(1, ok)
    \/ \E found \in BOOLEAN : FinFetchedTimer(1, found)
    \/ FinEditedTimer(1)

SpecMsg == InitMessageBoard /\ [][NextMsg]_vars

\* Finalize: four users of g1 have been active, the two leaderboards of g1
\* expire and the 15 s sweep finalizes them, the clock advancing and the
\* platform calls succeeding or failing at every await.
NextFinalize ==
    \/ Tick(SWEEP_MS)
    \/ ready
    \/ \E rows \in Orders(stmtGetAllLeaderboards(leaderboards)) :
            processLeaderboardsExpiry(1, [i \in DOMAIN rows |-> SweepRow(leaderboards, rows[i])])
    \/ \E ok \in BOOLEAN, ord \in TieOrders : FinFetchedChannel(1, ok, ord)
    \/ \E found \in BOOLEAN : FinFetchedMessage(1, found)
    \/ FinEdited(1)
    \/ \E ok \in BOOLEAN : FinSent(1, ok)
    \/ \E found \in BOOLEAN : FinFetchedTimer(1, found)
    \/ FinEditedTimer(1)

SpecFinalize == InitActive /\ [][NextFinalize]_vars

\* Cycles: four users of g1 have been active, the two leaderboards of g1
\* expire, the 15 s sweep runs, and an owner or another user runs
\* /setleaderboard.
NextCycle ==
    \/ Tick(SWEEP_MS)
    \/ ready
    \/ \E user \in Humans, t \in Types : setleaderboard(user, "g1", t, "t1")
    \/ \E ok \in BOOLEAN : SetSentTimer(ok)
    \/ \E ok \in BOOLEAN : SetSentEmbed(ok)
    \/ \E rows \in Orders(stmtGetAllLeaderboards(leaderboards)) :
            processLeaderboardsExpiry(1, [i \in DOMAIN rows |-> SweepRow(leaderboards, rows[i])])
    \/ \E ok \in BOOLEAN, ord \in TieOrders : FinFetchedChannel(1, ok, ord)
    \/ \E found \in BOOLEAN : FinFetchedMessage(1, found)
    \/ FinEdited(1)
    \/ \E ok \in BOOLEAN : FinSent(1, ok)
    \/ \E found \in BOOLEAN : FinFetchedTimer(1, found)
    \/ FinEditedTimer(1)

SpecCycle == InitActive /\ [][NextCycle]_vars

\* Ranking: a user joins voice in a guild of 2, 99 or 100 other users,
\* time passes, and /classement ranks.
NextRank ==
    \/ Tick(SWEEP_MS)
    \/ ready
    \/ \E c \in {"v1", NoChannel} : voiceStateUpdate("g1", 1, c)
    \/ \E type \in Types, ord \in TieOrders : classement("g1", type, ord)

SpecRank == InitCrowd /\ [][NextRank]_vars

\* Pagination: the paginated view of guilds of 0 to 25 users, for every
\* requested page from -1 to MaxPage.
NextPage ==
    \/ ready
    \/ \E type \in Types, page \in -1 .. MaxPage, ord \in TieOrders : paginate("g1", type, page, ord)

SpecPage == InitPaged /\ [][NextPage]_vars

\* Navigation: /classement and presses of the enabled buttons of its
\* reply, while users who were not ranked yet write their first messages.
NextView ==
    \/ ready
    \/ \E a \in Humans : messageCreate("g1", a)
    \/ \E type \in Types, ord \in TieOrders : classement("g1", type, ord)
    \/ \E dir \in {"prev", "next"}, ord \in TieOrders : button(dir, ord)

SpecView == InitPaged /\ [][NextView]_vars

\* Rendering: messages of a human in g1 and the 30 s refresh arm the
\* update timers of the message leaderboard of g1, whose published message
\* someone may delete; every platform call succeeds or fails.
NextRender ==
    \/ Tick(SWEEP_MS)
    \/ ready
    \/ messageCreate("g1", 1)
    \/ refreshInterval
    \/ \E k \in LbKeys, r \in RenderSlots : doLeaderboardUpdate(k, r)
    \/ \E r \in RenderSlots, ok \in BOOLEAN, ord \in TieOrders : UpdFetchedChannel(r, ok, ord)
    \/ \E r \in RenderSlots, found \in BOOLEAN : UpdFetchedMessage(r, found)
    \/ \E r \in RenderSlots, ok \in BOOLEAN : UpdEdited(r, ok)
    \/ \E r \in RenderSlots, ok \in BOOLEAN : UpdSent(r, ok)
    \/ \E id \in DOMAIN msgs : DeleteMessage(id)

SpecRender == InitMessageBoard /\ [][NextRender]_vars

\* Setup: an owner or another user runs /setleaderboard for any guild,
\* type and channel, on top of the two leaderboards of g1.
NextSetup ==
    \/ Tick(SWEEP_MS)
    \/ ready
    \/ \E user \in Humans, g \in Guilds, t \in Types, ch \in TextChannels :
            setleaderboard(user, g, t, ch)
    \/ \E ok \in BOOLEAN : SetSentTimer(ok)
    \/ \E ok \in BOOLEAN : SetSentEmbed(ok)

SpecSetup == InitActive /\ [][NextSetup]_vars

\* Bots: a human and a bot of g1 write messages and join, change and leave
\* voice channels, also while the process is down, and the process restarts.
NextBots ==
    \/ \E a \in {0, 1} : messageCreate("g1", a)
    \/ \E m \in {0, 1}, c \in VoiceChannels \cup {NoChannel} : voiceStateUpdate("g1", m, c)
    \/ ready
    \/ Crash

SpecBots == Init /\ [][NextBots]_vars

\* Refresh: no activity at all; the message leaderboard of g1 has 4 minutes
\* to go, its channel and message are reachable (every platform call
\* succeeds), and the clock advances by refresh periods.  The timers that
\* are due fire and the awaited calls settle (weak fairness).
NextRefresh ==
    \/ Tick(REFRESH_MS)
    \/ ready
    \/ refreshInterval
    \/ \E k \in LbKeys, r \in RenderSlots : doLeaderboardUpdate(k, r)
    \/ \E r \in RenderSlots, ord \in TieOrders : UpdFetchedChannel(r, TRUE, ord)
    \/ \E r \in RenderSlots : UpdFetchedMessage(r, TRUE)
    \/ \E r \in RenderSlots : UpdEdited(r, TRUE)

FairRefresh ==
    /\ WF_vars(refreshInterval)
    /\ \A k \in LbKeys : WF_vars(\E r \in RenderSlots : doLeaderboardUpdate(k, r))
    /\ \A r \in RenderSlots :
          /\ WF_vars(\E ord \in TieOrders : UpdFetchedChannel(r, TRUE, ord))
          /\ WF_vars(UpdFetchedMessage(r, TRUE))
          /\ WF_vars(UpdEdited(r, TRUE))

SpecRefresh == InitRunning /\ [][NextRefresh]_vars /\ FairRefresh

\* Expiry: two users of g1 have been active, the two leaderboards of g1
\* expire, nobody is active any more and every platform call succeeds (the
\* channel and the messages are there).  The sweep interval fires when it
\* is due, also while an earlier sweep is still suspended, and the awaited
\* calls settle (weak fairness).  For the channel fetch the fairness is
\* stated on the state: no sweep stays at that await for ever, which is
\* weak fairness of FinFetchedChannel(s, TRUE, ord), the one step that
\* leaves the await and that is enabled wherever a sweep is suspended there.
NextExpiry ==
    \/ Tick(SWEEP_MS)
    \/ ready
    \/ \E s \in SweepSlots, rows \in Orders(stmtGetAllLeaderboards(leaderboards)) :
            /\ FirstIdle(sweeps, s)
            /\ processLeaderboardsExpiry(s, [i \in DOMAIN rows |-> SweepRow(leaderboards, rows[i])])
    \/ \E s \in SweepSlots, ord \in TieOrders : FinFetchedChannel(s, TRUE, ord)
    \/ \E s \in SweepSlots : FinFetchedMessage(s, TRUE)
    \/ \E s \in SweepSlots : FinEdited(s)
    \/ \E s \in SweepSlots : FinFetchedTimer(s, TRUE)
    \/ \E s \in SweepSlots : FinEditedTimer(s)

FairExpiry ==
    /\ WF_vars(\E s \in SweepSlots, rows \in Orders(stmtGetAllLeaderboards(leaderboards)) :
                  /\ FirstIdle(sweeps, s)
                  /\ processLeaderboardsExpiry(s, [i \in DOMAIN rows |->
                                                      SweepRow(leaderboards, rows[i])]))
    /\ \A s \in SweepSlots :
          /\ []<>(sweeps[s].pc # "fetchCh")
          /\ WF_vars(FinFetchedMessage(s, TRUE))
          /\ WF_vars(FinEdited(s))
          /\ WF_vars(FinFetchedTimer(s, TRUE))
          /\ WF_vars(FinEditedTimer(s))

SpecExpiry == InitUntied /\ [][NextExpiry]_vars /\ FairExpiry

\* Debounce: messages arrive in g1 and g2 while the message leaderboard of
\* g1 runs, the refresh interval fires and the timers fire; the renders
\* end at their first await (the channel is not reachable), so that only
\* the timers are at work; the clock advances by half a debounce delay or
\* by a refresh period.
NextDebounce ==
    \/ \E d \in {DEBOUNCE_MS \div 2, REFRESH_MS} : Tick(d)
    \/ ready
    \/ \E g \in Guilds : messageCreate(g, 1)
    \/ refreshInterval
    \/ \E k \in LbKeys, r \in RenderSlots : doLeaderboardUpdate(k, r)
    \/ \E r \in RenderSlots, ord \in TieOrders : UpdFetchedChannel(r, FALSE, ord)

SpecDebounce == InitRunning /\ [][NextDebounce]_vars

\* Voice reset: users 1 and 2 of g1 have voice seconds, user 1 joins and
\* leaves voice in g1 and in g2, the voice leaderboard of g1 expires and
\* the sweep finalizes it; the clock advances by a sweep period and half
\* a second at a time, so that the sweep runs off the whole second.
NextVoiceReset ==
    \/ Tick(SWEEP_MS + StepMs)
    \/ ready
    \/ \E g \in Guilds, c \in {"v1", NoChannel} : voiceStateUpdate(g, 1, c)
    \/ \E rows \in Orders(stmtGetAllLeaderboards(leaderboards)) :
            processLeaderboardsExpiry(1, [i \in DOMAIN rows |-> SweepRow(leaderboards, rows[i])])
    \/ \E ord \in TieOrders : FinFetchedChannel(1, TRUE, ord)
    \/ \E found \in BOOLEAN : FinFetchedMessage(1, found)
    \/ FinEdited(1)
    \/ \E ok \in BOOLEAN : FinSent(1, ok)
    \/ FinFetchedTimer(1, TRUE)
    \/ FinEditedTimer(1)

SpecVoiceReset == InitVocalBoard /\ [][NextVoiceReset]_vars

\* Frame: users 1 and 2 of g1 have messages and voice seconds, user 1
\* joins voice in g1 and in g2, both leaderboards of g1 expire together and
\* the sweep finalizes one kind after the other, every platform call
\* succeeding.
NextFrame ==
    \/ Tick(SWEEP_MS + StepMs)
    \/ ready
    \/ \E g \in Guilds : voiceStateUpdate(g, 1, "v1")
    \/ \E rows \in Orders(stmtGetAllLeaderboards(leaderboards)) :
            processLeaderboardsExpiry(1, [i \in DOMAIN rows |-> SweepRow(leaderboards, rows[i])])
    \/ \E ord \in TieOrders : FinFetchedChannel(1, TRUE, ord)
    \/ FinFetchedMessage(1, TRUE)
    \/ FinEdited(1)
    \/ FinFetchedTimer(1, TRUE)
    \/ FinEditedTimer(1)

SpecFrame == InitUntied /\ [][NextFrame]_vars

\* Orphans: one message leaderboard of g1; messages arrive, the debounced
\* renders run in two overlapping invocations, every platform call
\* succeeds and a message fetch finds the message whenever it exists;
\* somebody may delete a message of the bot.
NextOrphan ==
    \/ Tick(SWEEP_MS)
    \/ ready
    \/ messageCreate("g1", 1)
    \/ \E k \in LbKeys, r \in RenderSlots : doLeaderboardUpdate(k, r)
    \/ \E r \in RenderSlots, ord \in TieOrders : UpdFetchedChannel(r, TRUE, ord)
    \/ \E r \in RenderSlots :
            UpdFetchedMessage(r, MessageExists(renders[r].cfg.messageId, renders[r].cfg.channelId))
    \/ \E r \in RenderSlots : UpdEdited(r, TRUE)
    \/ \E r \in RenderSlots : UpdSent(r, TRUE)
    \/ \E id \in DOMAIN msgs : DeleteMessage(id)

SpecOrphan == InitMessageBoard /\ [][NextOrphan]_vars

\* ------------------------------------------------------------------ C1
\* C1: while no message finalize of the guild has run, the stored messages
\* counter of each (guild, user) - zero when there is no row - equals the
\* number of delivered events of that user in that guild with a guild and
\* a non-bot author; no row of a bot and no row outside a guild exists.
C1_MessagesEqualsDelivered ==
    /\ \A k \in Guilds \X Humans :
          k[1] \notin h_msgReset =>
              (IF k \in DOMAIN users THEN users[k].messages ELSE 0) = h_delivered[k]
    /\ \A k \in DOMAIN users : k[1] \in Guilds /\ k[2] \in Humans

\* Two qualifying events of one user were counted, and events of a bot
\* and without a guild were delivered too.
C1_Witness ==
    /\ <<"g1", 1>> \in DOMAIN users
    /\ users[<<"g1", 1>>].messages = 2
    /\ h_delivered[<<"g1", 1>>] = 2
    /\ h_n.events = MaxEvents
    /\ "g1" \notin h_msgReset

\* ------------------------------------------------------------------ C2
\* A session whose join and leave were both delivered, with no restart
\* and no voice finalize in between.
PlainSession(l) == l.valid /\ l.seen /\ l.restarts = 0 /\ ~l.fin

\* C2: for every voice session made of one join, any number of moves and
\* one leave (no finalize, no restart), the seconds added by the move and
\* leave flushes total floor((leave time - join time) / 1000).
C2_FlushedIsFloorOfConnectedTime ==
    \A k \in DOMAIN h_last :
        PlainSession(h_last[k]) => h_last[k].flushed = (h_last[k].t1 - h_last[k].t0) \div 1000

\* ------------------------------------------------------------------ C3
\* C3: a finalize begins for a (guild, type) only when the clock is at or
\* past the endAt that the config holds at that moment, and no cycle (a
\* config with its endAt) is finalized twice.
C3_FinalizeOnlyWhenStoredEndPassed ==
    /\ h_fin.beginAt # NULL => h_fin.beginAt >= h_fin.beginEnd
    /\ ~h_fin.twice

\* ------------------------------------------------------------------ C4
\* C4 as claimed: after the sweep finalized a cycle whose end was E, the
\* persisted winners block has at most 3 entries and the config holds the
\* new cycle startAt = E, endAt = E + period (the week, or the 4 minutes
\* of the test cycle).
C4_NewCycleStartsAtOldEnd ==
    h_fin.done # {} =>
        /\ Len(h_fin.winners.lines) <= 3
        /\ h_fin.startAt = h_fin.E
        /\ h_fin.endAt \in {h_fin.E + 604800000, h_fin.E + 240000}

\* C4 as amended: the winners block has at most 3 entries and the new
\* cycle is startAt = T, endAt = T + one week, T being the clock when the
\* reset step of the finalize runs, which is at or after E.
C4_NewCycleStartsAtReset ==
    h_fin.done # {} =>
        /\ Len(h_fin.winners.lines) <= 3
        /\ h_fin.winners.set
        /\ h_fin.startAt = h_fin.T
        /\ h_fin.endAt = h_fin.T + 604800000
        /\ h_fin.T >= h_fin.E

\* The initial 4-minute cycle of the message leaderboard (E = t0 + 240000)
\* was finalized one sweep period after its end, with four ranked users.
C4_Witness ==
    /\ <<"g1", "message", StartMs + SWEEP_MS>> \in h_fin.done
    /\ h_fin.t = "message"
    /\ h_fin.E = (StartMs + SWEEP_MS - TEST_MS) + 240000
    /\ h_fin.T = h_fin.E + SWEEP_MS
    /\ Len(h_fin.winners.lines) = 3

\* ------------------------------------------------------------------ C5
\* The member joined while the process ran, stayed connected through at
\* least one restart, and neither moved nor saw a voice finalize.
SurvivedRestart(x) == x.seen /\ x.restarts >= 1 /\ x.moves = 0 /\ ~x.fin

\* C5 as claimed: after the restart the tracker entry of such a member has
\* start t0, the time of the join, and the flush at the leave is
\* floor((leave - t0) / 1000).
C5_RecoveredStartIsJoinTime ==
    \A k \in DOMAIN h_sess :
        /\ (up /\ h_sess[k].open /\ SurvivedRestart(h_sess[k]))
              => (k \in DOMAIN activeVoice /\ activeVoice[k] = h_sess[k].t0)
        /\ (h_last[k].valid /\ SurvivedRestart(h_last[k]))
              => h_last[k].flushed = (h_last[k].t1 - h_last[k].t0) \div 1000

\* C5 as amended: the rebuilt start is the persisted voiceJoin (whole
\* seconds) times 1000, that is t0 truncated to the second: at most t0,
\* less than a second before it, and never the restart time; the flush at
\* the leave is floor((leave - rebuilt start) / 1000), which covers the
\* whole interval from t0 to the leave.
C5_RecoveredStartIsStoredJoin ==
    \A k \in DOMAIN h_sess :
        /\ (up /\ h_sess[k].open /\ SurvivedRestart(h_sess[k]))
              => /\ k \in DOMAIN activeVoice
                 /\ k \in DOMAIN users
                 /\ users[k].voiceJoin = h_sess[k].t0 \div 1000
                 /\ activeVoice[k] = (h_sess[k].t0 \div 1000) * 1000
        /\ (h_last[k].valid /\ SurvivedRestart(h_last[k]))
              => /\ h_last[k].recovered = (h_last[k].t0 \div 1000) * 1000
                 /\ h_last[k].flushed = (h_last[k].t1 - (h_last[k].t0 \div 1000) * 1000) \div 1000
                 /\ h_last[k].flushed >= (h_last[k].t1 - h_last[k].t0) \div 1000

\* A member joined off the second boundary, stayed through a restart and
\* left later: the flush used the recovered start, not the restart time.
C5_Witness ==
    \E k \in DOMAIN h_last :
        /\ h_last[k].valid /\ SurvivedRestart(h_last[k])
        /\ h_last[k].t0 % 1000 # 0
        /\ h_last[k].flushed >= 1

\* ------------------------------------------------------------------ C6
\* C6: once the startup scan has run, a users row has a non-null voiceJoin
\* exactly when activeVoice holds an entry for that (guild, user).
C6_VoiceJoinIffTracked ==
    up => /\ \A k \in DOMAIN users : (users[k].voiceJoin # NULL) <=> (k \in DOMAIN activeVoice)
          /\ DOMAIN activeVoice \subseteq DOMAIN users

\* ------------------------------------------------------------------ C7
\* The metric the ranking of a type orders by.
EffectiveMetric(type, r) == IF type = "message" THEN r.messages ELSE r.totalSeconds

\* The position of user u in the ranked rows; 0 when u is not ranked.
RankOf(rows, u) ==
    IF \E i \in 1 .. Len(rows) : rows[i].userId = u
    THEN CHOOSE i \in 1 .. Len(rows) : rows[i].userId = u
    ELSE 0

\* C7 for one ranking of guild g: the rows are in non-increasing order of
\* the effective metric and, for the voice type, every user of the guild
\* with an open session and zero durable seconds is ranked, and ranked
\* before every ranked user without open session whose durable seconds
\* are less than the elapsed seconds of that open session.
RankingRight(rows, g, type) ==
    /\ \A i \in 1 .. Len(rows) - 1 :
          EffectiveMetric(type, rows[i]) >= EffectiveMetric(type, rows[i + 1])
    /\ type = "vocal" =>
          \A a \in GuildUsers(users, g) :
             (<<g, a>> \in DOMAIN activeVoice /\ users[<<g, a>>].voiceSeconds = 0) =>
                \A b \in GuildUsers(users, g) :
                   (/\ <<g, b>> \notin DOMAIN activeVoice
                    /\ users[<<g, b>>].voiceSeconds < (now - activeVoice[<<g, a>>]) \div 1000)
                   => /\ RankOf(rows, a) > 0
                      /\ RankOf(rows, b) > 0 => RankOf(rows, a) < RankOf(rows, b)

\* C7: in every state of the store and the tracker, for both types and
\* whatever order the store returns level rows in, the ranking of g1 is
\* ordered as above, whatever the number of users of the guild.
C7_RankingOrderedByEffectiveMetric ==
    up => \A type \in Types, ord \in TieOrders :
             RankingRight(RankedRows(users, activeVoice, "g1", type, now, ord), "g1", type)

\* ------------------------------------------------------------------ C8
\* C8: for the N ranked rows and the requested page p of a paginated view,
\* the page count is the least k >= 1 with k * pageSize >= N, the page
\* shown is p clamped into 1 .. page count, and its entries are exactly
\* the rows of 0-based rank index (page - 1) * pageSize .. page * pageSize
\* - 1 that exist, in rank order.
C8_PageCountClampAndSlice ==
    view.shown =>
        LET N == Len(view.rows)
            p == view.page
            first == (view.safe - 1) * RESULTS_PER_PAGE
            existing == {i \in 0 .. N - 1 : first <= i /\ i <= view.safe * RESULTS_PER_PAGE - 1}
        IN /\ view.pages >= 1
           /\ view.pages * RESULTS_PER_PAGE >= N
           /\ view.pages > 1 => (view.pages - 1) * RESULTS_PER_PAGE < N
           /\ view.safe = IF p < 1 THEN 1 ELSE IF p > view.pages THEN view.pages ELSE p
           /\ Len(view.slice) = Cardinality(existing)
           /\ \A j \in 1 .. Len(view.slice) : view.slice[j] = view.rows[first + j]

\* Page 4 was requested of a ranking of 25 rows: page 3 of 3 is shown,
\* with the 5 rows of index 20 .. 24.
C8_Witness ==
    /\ view.shown
    /\ Len(view.rows) = 2 * RESULTS_PER_PAGE + 5
    /\ view.page = 4
    /\ view.safe = 3
    /\ Len(view.slice) = 5

FinalizeStepOf(k, s) ==
    /\ sweeps[s].pc \in {"fetchCh", "edit", "send"}
    /\ sweeps'[s] # sweeps[s]
    /\ <<FinG(s), FinT(s)>> = k

\* C10: a stored (non-null) winnersText of a (guild, type) changes only in
\* a step of a finalize of that same (guild, type).
C10_WinnersTextChangedOnlyByFinalize ==
    [][\A k \in DOMAIN leaderboards :
          (/\ leaderboards[k].winnersText.set
           /\ k \in DOMAIN leaderboards' => leaderboards'[k].winnersText # leaderboards[k].winnersText)
          => \E s \in SweepSlots : FinalizeStepOf(k, s)]_vars

\* ------------------------------------------------------------------ C11
\* The step is a continuation of the doLeaderboardUpdate in slot r.
RenderStep(r) == renders[r].pc # "idle" /\ renders'[r] # renders[r]

\* The step neither sends a message nor changes a stored config.
NothingPublished == msgs' = msgs /\ nextMsgId' = nextMsgId /\ leaderboards' = leaderboards

\* C11 as claimed: a doLeaderboardUpdate whose config has a stored
\* messageId never sends a new leaderboard message and never changes the
\* stored messageId, whether or not the message can be fetched and edited.
C11_NoResendWhenEditImpossible ==
    [][\A r \in RenderSlots :
          (RenderStep(r) /\ Truthy(renders[r].cfg.messageId)) => NothingPublished]_vars

\* C11 as amended: with a stored messageId, a message that is fetched is
\* edited in place and nothing is sent or stored, whether or not the edit
\* succeeds; a message that cannot be fetched (a deleted one never can)
\* makes the update send a new leaderboard message to the channel, and when
\* the send succeeds the id of the new message replaces the stored
\* messageId.
C11_ResendOnlyWhenFetchFails ==
    [][\A r \in RenderSlots :
          (RenderStep(r) /\ Truthy(renders[r].cfg.messageId)) =>
             LET cfg == renders[r].cfg
                 k == <<renders[r].g, renders[r].t>>
             IN /\ renders[r].pc = "fetchMsg" =>
                      /\ NothingPublished
                      /\ renders'[r].pc \in {"edit", "send"}
                      /\ ~MessageExists(cfg.messageId, cfg.channelId) => renders'[r].pc = "send"
                /\ renders[r].pc = "edit" => NothingPublished /\ renders'[r].pc = "idle"
                /\ renders[r].pc = "send" =>
                      \/ NothingPublished
                      \/ /\ nextMsgId \notin DOMAIN msgs
                         /\ nextMsgId \in DOMAIN msgs'
                         /\ msgs'[nextMsgId] = [ch |-> cfg.channelId, kind |-> "board"]
                         /\ k \in DOMAIN leaderboards => leaderboards'[k].messageId = nextMsgId]_vars

\* The published message (id 2) of the message leaderboard of g1 was
\* deleted, and an update sent message 3 and stored its id.
C11_Witness ==
    /\ h_n.deletes = 1
    /\ 2 \notin DOMAIN msgs
    /\ 3 \in DOMAIN msgs
    /\ msgs[3].kind = "board"
    /\ leaderboards[<<"g1", "message">>].messageId = 3

\* ------------------------------------------------------------------ C12
\* The step ends the finalizeAndResetLeaderboard that sweep s is running:
\* the sweep leaves it, for its next row or for good.
FinalizeEnds(s) ==
    /\ sweeps[s].pc \in {"fetchCh", "fetchMsg", "edit", "send", "fetchTimer", "editTimer"}
    /\ sweeps'[s].pc = "idle" \/ sweeps'[s].i # sweeps[s].i

\* C12: whatever platform call of a finalize fails (channel fetch, message
\* fetch, edit, send, timer-message edit), the finalize ends with the
\* counters reset and the new cycle stored for the cycle it read, and the
\* sweep goes on with the next row of its snapshot (no exception left the
\* finalize or the sweep).
C12_FinalizeSurvivesPlatformFailures ==
    [][\A s \in SweepSlots :
          FinalizeEnds(s) =>
             /\ <<FinG(s), FinT(s), sweeps[s].cfg.endAt>> \in h_fin'.done
             /\ sweeps'[s] = SweepFrom(leaderboards', sweeps[s].rows, sweeps[s].i + 1)]_vars

\* ------------------------------------------------------------------ C13
\* C13: a /setleaderboard invoked by a user who is not in OWNER_IDS changes
\* no leaderboard config (so starts no cycle), sends no message and leaves
\* the handler with nothing more to do; the users table, the tracker and
\* the timers are untouched too.
C13_OutsiderSetupChangesNothing ==
    [][(h_n'.setups # h_n.setups /\ h_actor'.cmd \notin OWNER_IDS)
          => UNCHANGED <<leaderboards, users, msgs, nextMsgId, setup, pendingUpdate,
                         activeVoice, sweeps, renders>>]_vars

\* User 2, who is not an owner, ran /setleaderboard: the two configs and
\* the four messages are what they were.
C13_Witness ==
    /\ h_n.setups = 1
    /\ h_actor.cmd = 2
    /\ h_actor.cmd \notin OWNER_IDS
    /\ leaderboards = ConfiguredBoards
    /\ msgs = ConfiguredMsgs
    /\ setup = IdleSetup

\* ------------------------------------------------------------------ C14
\* The step delivers a voice-state change of a bot, or a message of a bot.
BotVoiceStep == \E k \in Guilds \X Bots : voice'[k] # voice[k]
BotMessageStep == h_n'.events # h_n.events /\ h_actor'.msg \in Bots

\* C14: a message of a bot and a voice join, move or leave of a bot leave
\* the users table, the session tracker and the update timers as they
\* were; and no step, the startup scan with bots connected to voice
\* included, makes a users row or a tracker entry of a bot.
C14_BotsAreNotTracked ==
    [][/\ (BotVoiceStep \/ BotMessageStep) => UNCHANGED <<users, activeVoice, pendingUpdate>>
       /\ \A k \in Guilds \X Bots : k \notin DOMAIN users' /\ k \notin DOMAIN activeVoice'
       /\ (~up /\ up') => pendingUpdate' = pendingUpdate]_vars

\* The process restarted while the bot and the human were connected to
\* voice, and the last message delivered was the bot's: the human is
\* tracked, the bot is not.
C14_Witness ==
    /\ up
    /\ h_n.crashes = 1
    /\ voice[<<"g1", 0>>] = "v1"
    /\ h_actor.msg = 0
    /\ <<"g1", 1>> \in DOMAIN activeVoice
    /\ <<"g1", 0>> \notin DOMAIN activeVoice
    /\ <<"g1", 0>> \notin DOMAIN users

\* ------------------------------------------------------------------ C15
\* The instants at which the refresh interval can come due.
RefreshTimes == {StartMs + i * REFRESH_MS : i \in 0 .. MaxTicks}

\* The view last published for key k was rendered at or after t, and its
\* footer shows the whole minutes that the cycle had left when it was
\* rendered (zero once the end has passed).
RenderedSince(k, t) ==
    LET p == h_pub[k]
        left == leaderboards[k].endAt - p.at
    IN /\ p.at # NULL
       /\ p.at >= t
       /\ Len(p.footer) = 3
       /\ (p.footer[1] * 24 + p.footer[2]) * 60 + p.footer[3]
             = (IF left > 0 THEN left ELSE 0) \div 60000

\* The whole minutes shown by a footer <<days, hours, minutes>>.
FooterMinutes(f) == (f[1] * 24 + f[2]) * 60 + f[3]

\* C15: with no activity events, whenever the refresh interval is due at
\* time t, every active config (channel and message reachable) is
\* eventually rendered and published again with a view rendered at or
\* after t, whose footer is the time then remaining; and a published view
\* that is a minute old or more is eventually replaced by one whose footer
\* is strictly smaller, or zero.
C15_RefreshRepublishesEveryActiveConfig ==
    \A t \in RefreshTimes, k \in DOMAIN RunningBoards :
        LET due == up /\ now = t /\ refreshDue # NULL /\ now >= refreshDue
                      /\ leaderboards[k].active = 1
        IN /\ due ~> RenderedSince(k, t)
           /\ \A f \in 0 .. (TEST_MS \div 60000) :
                 (due /\ h_pub[k].at # NULL /\ h_pub[k].at + 60000 <= t
                      /\ FooterMinutes(h_pub[k].footer) = f)
                    ~> (h_pub[k].at >= t
                          /\ (FooterMinutes(h_pub[k].footer) < f
                                \/ FooterMinutes(h_pub[k].footer) = 0))

\* Three refresh periods after the start the message leaderboard was
\* published again, with 2 minutes left instead of the 3 that were shown
\* a minute earlier.
C15_Witness ==
    /\ h_pub[<<"g1", "message">>].at = StartMs + 3 * REFRESH_MS
    /\ h_pub[<<"g1", "message">>].footer = <<0, 0, 2>>
    /\ RenderedSince(<<"g1", "message">>, StartMs + 3 * REFRESH_MS)

\* ------------------------------------------------------------------ C16
\* The counters of type t are zero for every user of guild g.
CountersReset(g, t) ==
    \A k \in DOMAIN users :
        k[1] = g => (IF t = "message" THEN users[k].messages ELSE users[k].voiceSeconds) = 0

\* C16: when the sweep interval is due and an active config has its endAt
\* in the past, then (platform calls succeeding, sweeps firing) the config
\* is eventually finalized: the counters of its type are reset and its
\* stored endAt lies in the future.
C16_ExpiredConfigIsEventuallyFinalized ==
    \A k \in DOMAIN ConfiguredBoards :
        (/\ up
         /\ sweepDue # NULL /\ now >= sweepDue
         /\ leaderboards[k].active = 1
         /\ Truthy(leaderboards[k].endAt) /\ now >= leaderboards[k].endAt)
            ~> (/\ CountersReset(k[1], k[2])
                /\ leaderboards[k].endAt > now
                /\ \E c \in h_fin.done : c[1] = k[1] /\ c[2] = k[2])

\* Both expired leaderboards of g1 were finalized: no counts are left and
\* both cycles end in the future.
C16_Witness ==
    /\ \A k \in DOMAIN ConfiguredBoards :
          /\ leaderboards[k].endAt > now
          /\ CountersReset(k[1], k[2])
          /\ <<k[1], k[2], StartMs + SWEEP_MS>> \in h_fin.done
    /\ \A s \in SweepSlots : sweeps[s].pc = "idle"

\* ------------------------------------------------------------------ C17
\* The renders and the finalizes of key k that have begun and are suspended
\* at an awaited call.
RendersInProgress(k) ==
    {r \in RenderSlots : renders[r].pc # "idle" /\ <<renders[r].g, renders[r].t>> = k}
FinalizesInProgress(k) ==
    {s \in SweepSlots : sweeps[s].pc # "idle" /\ <<FinG(s), FinT(s)>> = k}

\* C17: for every (guild, type) key, at most one doLeaderboardUpdate or
\* finalize is in progress at any time.
C17_AtMostOneHandlerPerKey ==
    \A k \in LbKeys :
        Cardinality(RendersInProgress(k)) + Cardinality(FinalizesInProgress(k)) <= 1

\* ------------------------------------------------------------------ C18
\* The messages counter of user u in the winners snapshot of the last
\* finalize (zero when the snapshot has no row of u).
SnapshotCount(u) ==
    LET at == {i \in DOMAIN h_fin.snap : h_fin.snap[i][1] = u}
    IN IF at = {} THEN 0 ELSE h_fin.snap[CHOOSE i \in at : TRUE][2]

\* C18: once the one message finalize of g1 has reset the counters, every
\* qualifying message delivered in g1 is either in the counters its
\* winners snapshot was computed from or in the counters after the reset:
\* per user, delivered = snapshot + stored.
C18_FinalizeLosesNoMessage ==
    (h_fin.done = {<<"g1", "message", StartMs + SWEEP_MS>>} /\ ~h_fin.twice) =>
        \A u \in Humans :
            h_delivered[<<"g1", u>>]
                = SnapshotCount(u)
                    + (IF <<"g1", u>> \in DOMAIN users THEN users[<<"g1", u>>].messages ELSE 0)

\* ------------------------------------------------------------------ C19
\* C19: when a finalize has stored the new cycle, the messageId of the
\* stored config is the id of the leaderboard message that this finalize
\* edited or newly sent when it published the winners view.
C19_MessageIdIsThePublishedMessage ==
    h_fin.done # {} => h_fin.messageId = h_fin.pubId

\* ------------------------------------------------------------------ C20
\* A trigger for key k arrives in this step; the timer of key k fires in
\* this step.
TriggerStep(k) == h_upd'[k].n # h_upd[k].n \/ h_upd'[k].last # h_upd[k].last
RunStep(k) == ~TriggerStep(k) /\ h_upd'[k].runs = h_upd[k].runs + 1

\* Every step treats the timer of every key k as follows: a trigger for k
\* replaces whatever timer was pending by one fresh timer; the firing of
\* the timer of k removes it; any other step, a trigger for another key
\* included, leaves it as it is.
TimerStep ==
    \A k \in LbKeys :
        IF TriggerStep(k)
        THEN pendingUpdate'[k] \in {now, now + FINALIZE_DELAY_MS, now + DEBOUNCE_MS}
        ELSE IF RunStep(k)
             THEN pendingUpdate[k] # NULL /\ now >= pendingUpdate[k] /\ pendingUpdate'[k] = NULL
             ELSE pendingUpdate'[k] = pendingUpdate[k]

\* C20 as stated: per key one timer, replaced outright by each trigger and
\* untouched by the triggers of other keys; and in every burst of triggers
\* of a key, each less than DEBOUNCE_MS after the previous one, no
\* execution of doLeaderboardUpdate while the timer is pending and exactly
\* one once it is gone.
C20_AnyBurstRunsOnce ==
    /\ [][TimerStep]_vars
    /\ [](\A k \in LbKeys :
            h_upd[k].last # NULL =>
                \/ pendingUpdate[k] # NULL /\ h_upd[k].runs = 0
                \/ pendingUpdate[k] = NULL /\ h_upd[k].runs = 1)

\* C20 for the bursts whose triggers all use the default delay: the one
\* timer is due DEBOUNCE_MS after the latest trigger, nothing is executed
\* while it is pending, and exactly one execution, not earlier than that,
\* has taken place once it is gone.
C20_DefaultDelayBurstRunsOnce ==
    /\ [][TimerStep]_vars
    /\ [](\A k \in LbKeys :
            (h_upd[k].last # NULL /\ h_upd[k].plain) =>
                \/ pendingUpdate[k] = h_upd[k].last + DEBOUNCE_MS /\ h_upd[k].runs = 0
                \/ /\ pendingUpdate[k] = NULL
                   /\ h_upd[k].runs = 1
                   /\ h_upd[k].runAt >= h_upd[k].last + DEBOUNCE_MS)

\* Two messages of g1 half a debounce delay apart were followed by one
\* execution, while the timer that a message of g2 set is still pending.
C20_Witness ==
    /\ h_upd[<<"g1", "message">>].n = 2
    /\ h_upd[<<"g1", "message">>].plain
    /\ h_upd[<<"g1", "message">>].runs = 1
    /\ h_upd[<<"g1", "message">>].runAt >= StartMs + DEBOUNCE_MS \div 2 + DEBOUNCE_MS
    /\ pendingUpdate[<<"g1", "message">>] = NULL
    /\ pendingUpdate[<<"g2", "message">>] # NULL

\* ------------------------------------------------------------------ C21
\* The step is the reset step of the finalize that sweep invocation s is
\* in: the section that follows the publish (a failed send ends the
\* finalize without it).
ResetStepOf(s) ==
    /\ up'
    /\ sweeps[s].pc \in {"edit", "send"}
    /\ sweeps'[s] # sweeps[s]
    /\ sweeps[s].pc = "send" => nextMsgId' # nextMsgId

\* The effective voice total of row k of the table tbl at time t, given
\* the tracker av.
EffectiveVoice(tbl, av, k, t) == TotalSeconds(RowOf(tbl, k[1], k[2]), av, k[1], t)

\* What every reset step of a voice finalize of guild g does apart from
\* the stored voiceJoin: the open sessions of g stay open and restart at
\* the reset time, every user of g has an effective voice total of 0, and
\* the tracker entries and rows of other guilds are as before.
VoiceResetEffect(g) ==
    /\ DOMAIN activeVoice' = DOMAIN activeVoice
    /\ DOMAIN users' = DOMAIN users
    /\ \A k \in DOMAIN activeVoice :
          activeVoice'[k] = IF k[1] = g THEN now ELSE activeVoice[k]
    /\ \A k \in DOMAIN users :
          IF k[1] = g THEN EffectiveVoice(users', activeVoice', k, now) = 0
          ELSE users'[k] = users[k]

\* C21 as stated: immediately after the reset step of a voice finalize of
\* guild G, the open sessions of G are still open, their tracker start and
\* their stored voiceJoin both are the reset time, every user of G has an
\* effective voice total of 0, and other guilds are unchanged.
C21_VoiceResetReanchorsAtResetTime ==
    [][\A s \in SweepSlots :
          (ResetStepOf(s) /\ FinT(s) = "vocal") =>
              /\ VoiceResetEffect(FinG(s))
              /\ \A k \in DOMAIN activeVoice :
                    k[1] = FinG(s) => RecoveredStart(users'[k].voiceJoin) = now]_vars

\* C21 as amended: the same, the stored voiceJoin being the reset time in
\* whole epoch seconds (the start recovered from it is at most the reset
\* time and less than a second before it).
C21_VoiceResetReanchorsAtResetSecond ==
    [][\A s \in SweepSlots :
          (ResetStepOf(s) /\ FinT(s) = "vocal") =>
              /\ VoiceResetEffect(FinG(s))
              /\ \A k \in DOMAIN activeVoice :
                    k[1] = FinG(s) =>
                        /\ users'[k].voiceJoin = EpochSeconds(now)
                        /\ RecoveredStart(users'[k].voiceJoin) <= now
                        /\ now - RecoveredStart(users'[k].voiceJoin) < MS_PER_SEC]_vars

\* The voice finalize of g1 has just reset, half a second past a whole
\* second, while user 1 was in voice in g1 and in g2: the session of g1
\* restarts at the reset time, that of g2 is as it was, and the counters
\* of g1 are zero.
C21_Witness ==
    /\ h_fin.t = "vocal" /\ h_fin.g = "g1"
    /\ h_fin.T = now
    /\ now % MS_PER_SEC = StepMs
    /\ sweeps[1].pc = "fetchTimer"
    /\ <<"g1", 1>> \in DOMAIN activeVoice /\ <<"g2", 1>> \in DOMAIN activeVoice
    /\ activeVoice[<<"g1", 1>>] = now
    /\ activeVoice[<<"g2", 1>>] < now
    /\ users[<<"g1", 1>>].voiceJoin = EpochSeconds(now)
    /\ \A k \in DOMAIN users : k[1] = "g1" => users[k].voiceSeconds = 0

\* ------------------------------------------------------------------ C22
\* The step is one of the finalize that sweep invocation s is in.
FinalizeStep(s) == up' /\ sweeps[s].pc # "idle" /\ sweeps'[s] # sweeps[s]

\* The rows of other guilds than g and the config of type t of guild g
\* are left as they are, and no row comes or goes.
OtherRowsAndConfigKept(g, t) ==
    /\ DOMAIN users' = DOMAIN users
    /\ \A k \in DOMAIN users : k[1] # g => users'[k] = users[k]
    /\ DOMAIN leaderboards' = DOMAIN leaderboards
    /\ <<g, t>> \in DOMAIN leaderboards => leaderboards'[<<g, t>>] = leaderboards[<<g, t>>]

\* C22: every step of a message finalize of guild G leaves every
\* voiceSeconds and voiceJoin, the session tracker, the rows of other
\* guilds and the voice config of G as they are, and its reset step sets
\* messages to 0 for every user of G; every step of a voice finalize of G
\* leaves every messages counter, the rows of other guilds and the message
\* config of G as they are.
C22_FinalizeTouchesOnlyItsKind ==
    [][\A s \in SweepSlots :
          FinalizeStep(s) =>
              IF FinT(s) = "message"
              THEN /\ OtherRowsAndConfigKept(FinG(s), "vocal")
                   /\ activeVoice' = activeVoice
                   /\ \A k \in DOMAIN users :
                         /\ users'[k].voiceSeconds = users[k].voiceSeconds
                         /\ users'[k].voiceJoin = users[k].voiceJoin
                         /\ (ResetStepOf(s) /\ k[1] = FinG(s)) => users'[k].messages = 0
              ELSE /\ OtherRowsAndConfigKept(FinG(s), "message")
                   /\ \A k \in DOMAIN users : users'[k].messages = users[k].messages]_vars

\* The message finalize of g1 has reset while the voice leaderboard still
\* waits: the messages of g1 are 0, the voice seconds, the open sessions
\* of user 1 in g1 and g2 and the voice config are what they were.
C22_Witness ==
    /\ h_fin.done = {<<"g1", "message", StartMs + SWEEP_MS>>}
    /\ sweeps[1].pc = "fetchTimer"
    /\ \A k \in DOMAIN UntiedTable :
          users[k].messages = 0 /\ users[k].voiceSeconds = UntiedTable[k].voiceSeconds
    /\ <<"g1", 1>> \in DOMAIN activeVoice /\ users[<<"g1", 1>>].voiceJoin # NULL
    /\ <<"g2", 1>> \in DOMAIN activeVoice /\ users[<<"g2", 1>>].voiceJoin # NULL
    /\ leaderboards[<<"g1", "vocal">>] = ConfiguredBoards[<<"g1", "vocal">>]

\* ------------------------------------------------------------------ C23
\* No render, finalize or setup is suspended at an awaited call.
Quiescent ==
    /\ \A r \in RenderSlots : renders[r].pc = "idle"
    /\ \A s \in DOMAIN sweeps : sweeps[s].pc = "idle"
    /\ setup.pc = "idle"

\* C23: whenever no render, finalize or setup is in progress, every
\* leaderboard message of the bot that exists in the channel of the one
\* config of g1 is the message the stored messageId names: no orphaned
\* duplicate is left behind.
C23_NoOrphanedLeaderboardMessage ==
    (up /\ Quiescent) =>
        \A k \in DOMAIN leaderboards : \A id \in DOMAIN msgs :
            (msgs[id].kind = "board" /\ msgs[id].ch = leaderboards[k].channelId)
                => id = leaderboards[k].messageId

\* ------------------------------------------------------------------ C24
\* C24: while the process runs, every user with a row who is connected to
\* no voice channel has an effective voice total - the one the ranking and
\* the winners snapshot use - equal to the stored voiceSeconds, whatever
\* the time.
C24_DisconnectedTotalIsStoredSeconds ==
    up => \A k \in DOMAIN users :
            voice[k] = NoChannel =>
                EffectiveVoice(users, activeVoice, k, now) = users[k].voiceSeconds

\* ------------------------------------------------------------------ C25
\* The cycle that the finalize of sweep invocation s works on: the config
\* with the endAt it read when it began.
CycleOf(s) == <<FinG(s), FinT(s), sweeps[s].cfg.endAt>>

\* The step computes and stores the winners text of the finalize of sweep
\* invocation s.
WinnersStepOf(s) ==
    /\ sweeps[s].pc = "fetchCh"
    /\ sweeps'[s].pc \in {"fetchMsg", "send"}

\* C25: with sweeps overlapping in any way, a finalize computes the
\* winners text of a cycle only while no reset for that cycle has been
\* done, and resets the counters for a cycle only if no finalize has reset
\* them for that cycle before.
C25_WinnersBeforeTheOnlyReset ==
    [][\A s \in SweepSlots :
          (WinnersStepOf(s) \/ ResetStepOf(s)) => CycleOf(s) \notin h_fin.done]_vars

====
